---- MODULE Spec2Model ----
(***************************************************************************)
(* Serene Springs: the multi-floor building grid (ABuildingGridManager),   *)
(* its cell store (FGridCellData), footprints (FBuildingFootprint), the    *)
(* building assets (UBuildingObjectAsset) and the placed buildings         *)
(* (ABuildingObject).                                                      *)
(*                                                                         *)
(* World coordinates are floats in the source; here they are integers in   *)
(* world units (all values used are exactly representable), and            *)
(* FMath::FloorToInt(a / b) is the floor division a \div b.                *)
(***************************************************************************)
EXTENDS Integers, Sequences, FiniteSets, TLC

VARIABLES
    GridSizeX,                \* ABuildingGridManager::GridSizeX
    GridSizeY,                \* ABuildingGridManager::GridSizeY
    CellSize,                 \* ABuildingGridManager::CellSize
    MaxFloors,                \* ABuildingGridManager::MaxFloors
    GridData,                 \* ABuildingGridManager::GridData  [floor][row Y][cell X]
    ActiveFloorLevel,         \* ABuildingGridManager::ActiveFloorLevel
    bGridVisualizationEnabled,\* ABuildingGridManager::bGridVisualizationEnabled
    Buildings,                \* the ABuildingObject actors of the world, by actor id
    SelectedBuildingAsset,    \* ABuildingController::SelectedBuildingAsset (None: null)
    bBuildingModeActive,      \* ABuildingController::bBuildingModeActive
    CurrentRotation,          \* ABuildingController::CurrentRotation
    CurrentFloorLevel,        \* ABuildingController::CurrentFloorLevel
    lastCall                  \* the last call: operation and result (and, for
                              \* the footprint, coordinate and guest calls,
                              \* its arguments)

vars == <<GridSizeX, GridSizeY, CellSize, MaxFloors, GridData, ActiveFloorLevel,
          bGridVisualizationEnabled, Buildings, SelectedBuildingAsset,
          bBuildingModeActive, CurrentRotation, CurrentFloorLevel, lastCall>>

\* the state of the ABuildingController
controller == <<SelectedBuildingAsset, bBuildingModeActive, CurrentRotation,
                CurrentFloorLevel>>

----------------------------------------------------------------------------
(* Bounds of the model *)

\* number of actor ids the world can hand out (live ABuildingObject actors)
MaxBuildings == 2

\* Program constants
DefaultCellSize == 100
FloorHeight == 400

\* the null asset and the null class; EBuildingType::None
None == "None"

\* actor ids; the null actor pointer
BuildingIds == 1..MaxBuildings
NullActor == 0

\* GetActorLocation() of the grid manager: the grid origin, at world 0
ActorLocation == [X |-> 0, Y |-> 0, Z |-> 0]

Point(x, y) == [X |-> x, Y |-> y]

----------------------------------------------------------------------------
(* Inputs of the model *)

\* (SizeX, SizeY, MaxFloors) configurations InitializeGrid is called with
GridConfigs == { <<3, 3, 1>>, <<2, 2, 2>> }

\* world X/Y of the cursor hit (0, 50 and 150 resolve to columns/rows 0, 1 and 2)
\* and world Z (ground floor and first floor)
WorldPoints == { <<0, 0>>, <<50, 0>>, <<150, 150>> }
WorldHeights == { 0, 400 }
WorldLocations == { [X |-> p[1], Y |-> p[2], Z |-> z] : p \in WorldPoints, z \in WorldHeights }

\* the FloorLevel argument: negative = derive from the world location
FloorArgs == { -1, 0, 1 }

\* the Rotation argument (quarter turns)
RotationArgs == { 0, 1 }

\* the GridPosition and FloorLevel arguments of RemoveBuilding: in and out of bounds
RemovePositions == { [X |-> x, Y |-> y] : x \in 0..2, y \in 0..2 } \cup { [X |-> -1, Y |-> 0] }
RemoveFloors == { 0, 1 }

----------------------------------------------------------------------------
(* Building assets (UBuildingObjectAsset): read-only content *)

RectFootprint(w, h) == [Size |-> Point(w, h), OccupiedCells |-> <<>>]

\* FAdjacencyRequirement
Requirement(type, dir, neg) ==
    [RequiredBuildingType |-> type, Direction |-> dir, bIsNegativeRequirement |-> neg]

\* an entry of UBuildingObjectAsset::RequiredStaffTypes (in iteration order)
StaffRequirement(type, count) == [Key |-> type, Value |-> count]

AssetNames == { "Room", "Suite", "Garden", "Default" }

AssetDef(name) ==
    CASE name = "Room" ->
           \* a 1x1 standard room without adjacency requirements, for one guest,
           \* that needs two cleaners
           [BuildingType |-> "StandardRoom", Footprint |-> RectFootprint(1, 1),
            BuildingClass |-> "ABuildingObject", AdjacencyRequirements |-> <<>>,
            RequiredStaffTypes |-> << StaffRequirement("Cleaner", 2) >>, MaxGuests |-> 1]
      [] name = "Suite" ->
           \* a 2x1 suite that must not have a standard room to its north, for
           \* two guests, that needs two therapists and a cleaner
           [BuildingType |-> "Suite", Footprint |-> RectFootprint(2, 1),
            BuildingClass |-> "ABuildingObject",
            AdjacencyRequirements |-> << Requirement(None, "Any", FALSE),
                                         Requirement("StandardRoom", "North", TRUE) >>,
            RequiredStaffTypes |-> << StaffRequirement("Therapist", 2),
                                      StaffRequirement("Cleaner", 1) >>,
            MaxGuests |-> 2]
      [] name = "Garden" ->
           \* a garden of two cells in a column (explicit offsets) that needs a
           \* standard room next to its origin
           [BuildingType |-> "Garden",
            Footprint |-> [Size |-> Point(1, 1),
                           OccupiedCells |-> << Point(0, 0), Point(0, 1) >>],
            BuildingClass |-> "ABuildingObject",
            AdjacencyRequirements |-> << Requirement("StandardRoom", "Any", FALSE) >>,
            RequiredStaffTypes |-> <<>>, MaxGuests |-> 1]
      [] name = "Villa" ->
           \* a villa whose footprint is the one cell east of its origin (explicit
           \* offsets that leave the origin out)
           [BuildingType |-> "Villa",
            Footprint |-> [Size |-> Point(1, 1), OccupiedCells |-> << Point(1, 0) >>],
            BuildingClass |-> "ABuildingObject", AdjacencyRequirements |-> <<>>,
            RequiredStaffTypes |-> <<>>, MaxGuests |-> 1]
      [] name = "Default" ->
           \* a freshly constructed asset: type None, 1x1, no building class, no
           \* required staff, one guest
           [BuildingType |-> None, Footprint |-> RectFootprint(1, 1),
            BuildingClass |-> None, AdjacencyRequirements |-> <<>>,
            RequiredStaffTypes |-> <<>>, MaxGuests |-> 1]

\* the asset argument: an asset or the null pointer
AssetArgs == AssetNames \cup { None }

\* the arguments (asset, world location, rotation, floor) of the placement calls:
\* the floor is either detected from the hit (-1) or given with a hit on the ground
PlaceArgs == { a \in AssetArgs \X WorldLocations \X RotationArgs \X FloorArgs :
                  /\ (a[4] < 0 \/ a[2].Z = 0)
                  /\ (a[1] \in {None, "Default", "Room"} => a[3] = 0)
                  /\ (a[1] = None => a[4] < 0) }

\* a few of them, for the specification that has every operation of the manager
FewPlaceArgs ==
    { a \in PlaceArgs : /\ a[1] \in {"Room", "Suite", None}
                        /\ a[2].Y = 0
                        /\ a[4] < 0
                        /\ (a[1] = "Suite" => a[3] = 1) }

\* placements of rooms, suites and gardens along row 0, on the floor detected
\* from the hit
RoundTripPlaceArgs ==
    { a \in PlaceArgs : a[1] \in {"Room", "Suite", "Garden"} /\ a[2].Y = 0 /\ a[4] < 0 }

LookArgs == { <<"Suite", [X |-> 50, Y |-> 0, Z |-> 0], 1, 0>>,
              <<None, [X |-> 0, Y |-> 0, Z |-> 0], 0, 0>> }

\* placements next to each other on the ground floor: hits that resolve to the
\* cells (0,0), (1,0) and (1,1)
NeighbourLocations == { [X |-> 0, Y |-> 0, Z |-> 0], [X |-> 50, Y |-> 0, Z |-> 0],
                        [X |-> 50, Y |-> 50, Z |-> 0] }
NeighbourPlaceArgs ==
    { a \in {"Room", "Suite", "Garden", "Villa"} \X NeighbourLocations \X RotationArgs \X {-1} :
        a[1] \in {"Room", "Villa"} => a[3] = 0 }

\* footprint queries: rectangles, offset lists (one with a size that does not
\* fit the list), origins and rotations, negative and beyond one turn included
FootprintArgs ==
    { RectFootprint(1, 1), RectFootprint(2, 1), RectFootprint(2, 3),
      [Size |-> Point(1, 1), OccupiedCells |-> << Point(0, 0), Point(0, 1) >>],
      [Size |-> Point(1, 1), OccupiedCells |-> << Point(1, 0) >>],
      [Size |-> Point(3, 2), OccupiedCells |-> << Point(0, 0), Point(1, 0), Point(1, 2) >>] }
OriginArgs == { Point(0, 0), Point(1, 2), Point(-1, 0) }
QuarterArgs == -4..7

\* validation of a suite at the cell (1,1), whose northern neighbour is (1,0)
NeighbourLookArgs == { <<"Suite", [X |-> 50, Y |-> 50, Z |-> 0], r, -1>> : r \in RotationArgs }

\* WorldToGrid: positions on, between, just outside and far outside the cells
\* and floors of the grid
FarWorldPositions ==
    { [X |-> x, Y |-> y, Z |-> z] :
        x \in { -100000, -51, -50, -1, 0, 49, 50, 149, 150, 250, 100000 },
        y \in { -50, 0, 150, 100000 },
        z \in { -1000, -1, 0, 399, 400, 799, 800, 100000 } }

\* SetActiveFloorLevel: floors below, inside and above the grid
ActiveFloorArgs == { -1, 0, 1, 2 }

\* GetCellData: a corner, a cell that only the larger grid has, a position outside
CellQueryPositions == { [X |-> 0, Y |-> 0], [X |-> 2, Y |-> 2], [X |-> -1, Y |-> 0] }
CellQueryFloors == { -1, 0, 1 }

\* the staff and guest actors of the entity calls, the null pointer included
StaffArgs == { NullActor, 11, 12 }
GuestArgs == { NullActor, 21, 22 }

\* InitializeFromAsset: an asset with one staff entry, with two, with none, or
\* the null pointer
EntityAssetArgs == { "Room", "Suite", "Default", None }

\* the building the entity calls are made on: the first actor of the world
EntityTargets == { 1 }

\* the placements that give the entity calls their buildings
EntityPlaceArgs == { <<"Room", [X |-> 0, Y |-> 0, Z |-> 0], 0, -1>>,
                     <<"Suite", [X |-> 50, Y |-> 0, Z |-> 0], 0, -1>> }

\* previews: the suite on the ground floor, no asset, and a room at a hit on
\* the first floor
PreviewCallArgs == LookArgs \cup { <<"Room", [X |-> 0, Y |-> 0, Z |-> 400], 0, -1>> }

----------------------------------------------------------------------------
(* FBuildingFootprint (EGridTypes.h) *)

\* the C++ remainder a % b for b > 0: truncates toward zero, so it is negative
\* for a negative a
CRem(a, b) == IF a >= 0 THEN a % b ELSE -((-a) % b)

\* RotatePoint that turns the other way round
RotatePoint_OtherWay(P, Quarters) ==
    LET Q == CRem(Quarters, 4) IN
    CASE Q = 0 -> P
      [] Q = 1 -> Point(P.Y, -P.X)
      [] Q = 2 -> Point(-P.X, -P.Y)
      [] Q = 3 -> Point(-P.Y, P.X)
      [] OTHER -> P

\* FBuildingFootprint::RotatePoint
RotatePoint(P, Quarters) ==
    LET Q == CRem(Quarters, 4) IN
    CASE Q = 0 -> P
      [] Q = 1 -> Point(-P.Y, P.X)
      [] Q = 2 -> Point(-P.X, -P.Y)
      [] Q = 3 -> Point(P.Y, -P.X)
      [] OTHER -> P

\* FBuildingFootprint::RotateSize
RotateSize(InSize, Quarters) ==
    LET Q == CRem(Quarters, 4) IN
    IF CRem(Q, 2) = 1 THEN Point(InSize.Y, InSize.X) ELSE InSize

\* FBuildingFootprint::GetOccupiedCellPositions: the array of cells, in the
\* order the loops add them
GetOccupiedCellPositions(Footprint, Origin, RotationQuarters) ==
    IF Len(Footprint.OccupiedCells) > 0
    THEN [i \in 1..Len(Footprint.OccupiedCells) |->
            LET RotatedCell == RotatePoint(Footprint.OccupiedCells[i], RotationQuarters)
            IN  Point(Origin.X + RotatedCell.X, Origin.Y + RotatedCell.Y)]
    ELSE LET RotatedSize == RotateSize(Footprint.Size, RotationQuarters)
             nx == IF RotatedSize.X > 0 THEN RotatedSize.X ELSE 0
             ny == IF RotatedSize.Y > 0 THEN RotatedSize.Y ELSE 0
         IN  [k \in 1..(nx * ny) |->
                LET LocalPoint == Point((k - 1) \div ny, (k - 1) % ny)
                    RotatedPoint == RotatePoint(LocalPoint, RotationQuarters)
                IN  Point(Origin.X + RotatedPoint.X, Origin.Y + RotatedPoint.Y)]

\* the elements of an array
Range(seq) == { seq[i] : i \in 1..Len(seq) }

----------------------------------------------------------------------------
(* Grid coordinate model (BuildingGridManager.cpp) *)

\* FMath::Clamp
Clamp(x, lo, hi) == IF x < lo THEN lo ELSE IF x < hi THEN x ELSE hi

\* WorldToGrid that clamps the cell but not the floor
WorldToGrid_FloorUnclamped(WorldPosition) ==
    LET OutFloorLevel == WorldPosition.Z \div FloorHeight
        GridX == (WorldPosition.X - ActorLocation.X + (CellSize \div 2)) \div CellSize
        GridY == (WorldPosition.Y - ActorLocation.Y + (CellSize \div 2)) \div CellSize
        X == Clamp(GridX, 0, GridSizeX - 1)
        Y == Clamp(GridY, 0, GridSizeY - 1)
    IN  [Pos |-> Point(X, Y), Floor |-> OutFloorLevel]

\* ABuildingGridManager::WorldToGrid: the grid position and OutFloorLevel
WorldToGrid(WorldPosition) ==
    LET OutFloorLevel == Clamp(WorldPosition.Z \div FloorHeight, 0, MaxFloors - 1)
        GridX == (WorldPosition.X - ActorLocation.X + (CellSize \div 2)) \div CellSize
        GridY == (WorldPosition.Y - ActorLocation.Y + (CellSize \div 2)) \div CellSize
        X == Clamp(GridX, 0, GridSizeX - 1)
        Y == Clamp(GridY, 0, GridSizeY - 1)
    IN  [Pos |-> Point(X, Y), Floor |-> OutFloorLevel]

\* ABuildingGridManager::GridToWorld: the centre of the cell
GridToWorld(GridPosition, FloorLevel) ==
    LET WorldX == ActorLocation.X + (GridPosition.X * CellSize)
        WorldY == ActorLocation.Y + (GridPosition.Y * CellSize)
        WorldZ == ActorLocation.Z + (FloorLevel * FloorHeight)
    IN  [X |-> WorldX + (CellSize \div 2), Y |-> WorldY + (CellSize \div 2), Z |-> WorldZ]

\* ABuildingGridManager::IsValidGridPosition
IsValidGridPosition(GridPosition, FloorLevel) ==
    /\ FloorLevel >= 0
    /\ FloorLevel < MaxFloors
    /\ GridPosition.X >= 0
    /\ GridPosition.X < GridSizeX
    /\ GridPosition.Y >= 0
    /\ GridPosition.Y < GridSizeY

\* GridData[FloorLevel].GetRow(Y).GetCell(X)
CellAt(GridPosition, FloorLevel) == GridData[FloorLevel][GridPosition.Y][GridPosition.X]

\* the positions and floors of the store
Floors == 0..(MaxFloors - 1)
Positions == { Point(x, y) : x \in 0..(GridSizeX - 1), y \in 0..(GridSizeY - 1) }

----------------------------------------------------------------------------
(* Placed buildings (BuildingObject.cpp) *)

\* ABuildingObject::ABuildingObject: a freshly spawned actor
NewBuildingObject ==
    [BuildingAsset |-> None, BuildingType |-> None, GridOrigin |-> Point(0, 0),
     FloorLevel |-> 0, GridRotation |-> 0, BuildingState |-> 0,
     OperationalEfficiency |-> 100, AssignedStaff |-> <<>>, CurrentGuests |-> <<>>]

\* ABuildingObject::InitializeFromAsset
InitializeFromAsset(B, Asset) ==
    IF Asset = None THEN B
    ELSE [B EXCEPT !.BuildingAsset = Asset,
                   !.BuildingType = AssetDef(Asset).BuildingType,
                   !.OperationalEfficiency = 100,
                   !.BuildingState = 0,
                   !.AssignedStaff = <<>>,
                   !.CurrentGuests = <<>>]

\* SetGridProperties that does not store the rotation
SetGridProperties_NoRotation(B, Origin, Floor, Rotation) ==
    [B EXCEPT !.GridOrigin = Origin, !.FloorLevel = Floor]

\* ABuildingObject::SetGridProperties
SetGridProperties(B, Origin, Floor, Rotation) ==
    [B EXCEPT !.GridOrigin = Origin, !.FloorLevel = Floor, !.GridRotation = Rotation]

\* ABuildingObject::GetFootprint
GetFootprint(B) ==
    IF B.BuildingAsset # None THEN AssetDef(B.BuildingAsset).Footprint
    ELSE RectFootprint(1, 1)

\* what an entity call returns and the building it leaves
EntityOutcome(ret, B) == [ret |-> ret, Building |-> B]

\* the elements of a TArray of actors
Members(Array) == { Array[i] : i \in 1..Len(Array) }

\* TArray::Remove: the array without every entry equal to Item
RemoveAll(Array, Item) == SelectSeq(Array, LAMBDA e : e # Item)

\* UpdateEfficiency that takes the ratio of the last required staff type
UpdateEfficiency_LastEntry(B) ==
    LET Entries == IF B.BuildingAsset # None
                   THEN AssetDef(B.BuildingAsset).RequiredStaffTypes ELSE <<>>
        Last == Entries[Len(Entries)]
    IN  [B EXCEPT !.OperationalEfficiency =
            IF Entries = <<>> \/ Len(B.AssignedStaff) >= Last.Value THEN 100
            ELSE (100 * Len(B.AssignedStaff)) \div Last.Value]

\* ABuildingObject::UpdateEfficiency. The source computes in floats,
\* Min(1, Num / Value) * 100; the required counts of the assets here are 1 and
\* 2, for which these floats are the exact integers below.
UpdateEfficiency(B) ==
    LET Entries == IF B.BuildingAsset # None
                   THEN AssetDef(B.BuildingAsset).RequiredStaffTypes ELSE <<>>
        StaffRatio100(i) ==
            IF Len(B.AssignedStaff) >= Entries[i].Value THEN 100
            ELSE (100 * Len(B.AssignedStaff)) \div Entries[i].Value
        StaffEfficiency[i \in 0..Len(Entries)] ==
            IF i = 0 THEN 100
            ELSE IF StaffRatio100(i) < StaffEfficiency[i - 1] THEN StaffRatio100(i)
                 ELSE StaffEfficiency[i - 1]
    IN  [B EXCEPT !.OperationalEfficiency = StaffEfficiency[Len(Entries)]]

\* AssignStaffMember that does not recompute the efficiency
AssignStaffMember_NoRecompute(B, StaffMember) ==
    IF StaffMember = NullActor THEN EntityOutcome(FALSE, B)
    ELSE IF StaffMember \in Members(B.AssignedStaff) THEN EntityOutcome(TRUE, B)
    ELSE EntityOutcome(TRUE, [B EXCEPT !.AssignedStaff = Append(@, StaffMember)])

\* AssignStaffMember that does not look for the member in the array
AssignStaffMember_NoContains(B, StaffMember) ==
    IF StaffMember = NullActor THEN EntityOutcome(FALSE, B)
    ELSE EntityOutcome(TRUE,
            UpdateEfficiency([B EXCEPT !.AssignedStaff = Append(@, StaffMember)]))

\* ABuildingObject::AssignStaffMember
AssignStaffMember(B, StaffMember) ==
    IF StaffMember = NullActor THEN EntityOutcome(FALSE, B)
    ELSE IF StaffMember \in Members(B.AssignedStaff) THEN EntityOutcome(TRUE, B)
    ELSE EntityOutcome(TRUE,
            UpdateEfficiency([B EXCEPT !.AssignedStaff = Append(@, StaffMember)]))

\* ABuildingObject::RemoveStaffMember
RemoveStaffMember(B, StaffMember) ==
    IF StaffMember = NullActor THEN EntityOutcome(FALSE, B)
    ELSE LET NumRemoved == Len(B.AssignedStaff) - Len(RemoveAll(B.AssignedStaff, StaffMember))
         IN  IF NumRemoved > 0
             THEN EntityOutcome(TRUE,
                     UpdateEfficiency([B EXCEPT !.AssignedStaff = RemoveAll(@, StaffMember)]))
             ELSE EntityOutcome(FALSE, B)

\* ABuildingObject::HasAvailableCapacity
HasAvailableCapacity(B) ==
    LET MaxCapacity == IF B.BuildingAsset # None THEN AssetDef(B.BuildingAsset).MaxGuests
                       ELSE 1
    IN  Len(B.CurrentGuests) < MaxCapacity

\* RegisterGuest that does not look at the capacity
RegisterGuest_NoCapacity(B, Guest) ==
    IF Guest = NullActor THEN EntityOutcome(FALSE, B)
    ELSE IF Guest \in Members(B.CurrentGuests) THEN EntityOutcome(TRUE, B)
    ELSE EntityOutcome(TRUE, [B EXCEPT !.CurrentGuests = Append(@, Guest)])

\* ABuildingObject::RegisterGuest
RegisterGuest(B, Guest) ==
    IF Guest = NullActor THEN EntityOutcome(FALSE, B)
    ELSE IF Guest \in Members(B.CurrentGuests) THEN EntityOutcome(TRUE, B)
    ELSE IF ~HasAvailableCapacity(B) THEN EntityOutcome(FALSE, B)
    ELSE EntityOutcome(TRUE, [B EXCEPT !.CurrentGuests = Append(@, Guest)])

\* ABuildingObject::RemoveGuest
RemoveGuest(B, Guest) ==
    IF Guest = NullActor THEN EntityOutcome(FALSE, B)
    ELSE LET NumRemoved == Len(B.CurrentGuests) - Len(RemoveAll(B.CurrentGuests, Guest))
         IN  EntityOutcome(NumRemoved > 0, [B EXCEPT !.CurrentGuests = RemoveAll(@, Guest)])

\* IsOperational that looks at the staff only
IsOperational_StaffOnly(B) ==
    IF B.BuildingAsset # None
    THEN \A i \in 1..Len(AssetDef(B.BuildingAsset).RequiredStaffTypes) :
            ~(Len(B.AssignedStaff) < AssetDef(B.BuildingAsset).RequiredStaffTypes[i].Value)
    ELSE TRUE

\* ABuildingObject::IsOperational
IsOperational(B) ==
    IF B.BuildingState # 1 THEN FALSE
    ELSE IF B.BuildingAsset # None
         THEN \A i \in 1..Len(AssetDef(B.BuildingAsset).RequiredStaffTypes) :
                 ~(Len(B.AssignedStaff) < AssetDef(B.BuildingAsset).RequiredStaffTypes[i].Value)
         ELSE TRUE

\* OnDailyUpdate that does not recompute the efficiency
OnDailyUpdate_NoRecompute(B) ==
    IF B.BuildingState = 0 THEN [B EXCEPT !.BuildingState = 1] ELSE B

\* OnDailyUpdate that opens the building only once its staff is complete
OnDailyUpdate_WhenStaffed(B) ==
    UpdateEfficiency(IF B.BuildingState = 0 /\ IsOperational([B EXCEPT !.BuildingState = 1])
                     THEN [B EXCEPT !.BuildingState = 1] ELSE B)

\* OnDailyUpdate that moves the building on by one state every day
OnDailyUpdate_NextState(B) ==
    UpdateEfficiency([B EXCEPT !.BuildingState = @ + 1])

\* ABuildingObject::OnDailyUpdate
OnDailyUpdate(B) ==
    UpdateEfficiency(IF B.BuildingState = 0 THEN [B EXCEPT !.BuildingState = 1] ELSE B)

\* the actors of the world that are alive
LiveBuildings == DOMAIN Buildings

\* a SpawnActor that falls back to a default class
SpawnActor_DefaultClass(BuildingClass) ==
    CHOOSE b \in BuildingIds \ LiveBuildings :
        \A c \in BuildingIds \ LiveBuildings : b <= c

\* UWorld::SpawnActor<ABuildingObject>: no actor without a class; otherwise a
\* new actor (here: the first free actor id)
SpawnActor(BuildingClass) ==
    IF BuildingClass = None THEN NullActor
    ELSE CHOOSE b \in BuildingIds \ LiveBuildings :
            \A c \in BuildingIds \ LiveBuildings : b <= c

----------------------------------------------------------------------------
(* Grid store and manager (BuildingGridManager.cpp) *)

\* a cell with the utility connections on every floor
InitialCell_UtilitiesEverywhere(X, Y, Floor) ==
    [GridPosition |-> Point(X, Y), FloorLevel |-> Floor, bIsOccupied |-> FALSE,
     bIsWalkable |-> TRUE, ObjectOrigin |-> Point(X, Y), OccupyingObject |-> NullActor,
     PathCost |-> 1, VisualState |-> "Normal",
     bHasWaterConnection |-> TRUE, bHasElectricalConnection |-> TRUE]

\* the cell InitializeGrid writes at (X, Y) on Floor
InitialCell(X, Y, Floor) ==
    [GridPosition |-> Point(X, Y), FloorLevel |-> Floor, bIsOccupied |-> FALSE,
     bIsWalkable |-> TRUE, ObjectOrigin |-> Point(X, Y), OccupyingObject |-> NullActor,
     PathCost |-> 1, VisualState |-> "Normal",
     bHasWaterConnection |-> (Floor = 0), bHasElectricalConnection |-> (Floor = 0)]

\* the store InitializeGrid builds
InitialGridData(SizeX, SizeY, MaxFloorsValue) ==
    [Floor \in 0..(MaxFloorsValue - 1) |->
        [Y \in 0..(SizeY - 1) |-> [X \in 0..(SizeX - 1) |-> InitialCell(X, Y, Floor)]]]

\* AreCellsAvailableForBuilding without the check of the floor below
AreCellsAvailableForBuilding_NoSupport(Footprint, GridOrigin, Rotation, FloorLevel) ==
    LET OccupiedCells == GetOccupiedCellPositions(Footprint, GridOrigin, Rotation) IN
    \A i \in 1..Len(OccupiedCells) :
        LET Cell == OccupiedCells[i] IN
        /\ IsValidGridPosition(Cell, FloorLevel)
        /\ ~CellAt(Cell, FloorLevel).bIsOccupied

\* ABuildingGridManager::AreCellsAvailableForBuilding
AreCellsAvailableForBuilding(Footprint, GridOrigin, Rotation, FloorLevel) ==
    LET OccupiedCells == GetOccupiedCellPositions(Footprint, GridOrigin, Rotation) IN
    \A i \in 1..Len(OccupiedCells) :
        LET Cell == OccupiedCells[i] IN
        /\ IsValidGridPosition(Cell, FloorLevel)
        /\ ~CellAt(Cell, FloorLevel).bIsOccupied
        /\ (FloorLevel > 0 => CellAt(Cell, FloorLevel - 1).bIsOccupied)

\* the neighbour cells CheckAdjacencyRequirements collects for a direction
CellsToCheck(Direction, GridOrigin) ==
    (IF Direction \in {"North", "Any"} THEN << Point(GridOrigin.X, GridOrigin.Y - 1) >> ELSE <<>>)
    \o (IF Direction \in {"East", "Any"} THEN << Point(GridOrigin.X + 1, GridOrigin.Y) >> ELSE <<>>)
    \o (IF Direction \in {"South", "Any"} THEN << Point(GridOrigin.X, GridOrigin.Y + 1) >> ELSE <<>>)
    \o (IF Direction \in {"West", "Any"} THEN << Point(GridOrigin.X - 1, GridOrigin.Y) >> ELSE <<>>)

\* a bFoundMatch that is satisfied by a neighbour of any building type
FoundMatch_AnyType(Req, GridOrigin, FloorLevel) ==
    LET Cells == CellsToCheck(Req.Direction, GridOrigin) IN
    \E i \in 1..Len(Cells) :
        /\ IsValidGridPosition(Cells[i], FloorLevel)
        /\ CellAt(Cells[i], FloorLevel).bIsOccupied
        /\ CellAt(Cells[i], FloorLevel).OccupyingObject # NullActor

\* the inner loop of CheckAdjacencyRequirements: bFoundMatch
FoundMatch(Req, GridOrigin, FloorLevel) ==
    LET Cells == CellsToCheck(Req.Direction, GridOrigin) IN
    \E i \in 1..Len(Cells) :
        /\ IsValidGridPosition(Cells[i], FloorLevel)
        /\ CellAt(Cells[i], FloorLevel).bIsOccupied
        /\ CellAt(Cells[i], FloorLevel).OccupyingObject # NullActor
        /\ Buildings[CellAt(Cells[i], FloorLevel).OccupyingObject].BuildingType
               = Req.RequiredBuildingType

\* CheckAdjacencyRequirements that treats every requirement as a positive one
CheckAdjacencyRequirements_AllPositive(Requirements, GridOrigin, FloorLevel) ==
    \/ Len(Requirements) = 0
    \/ \A i \in 1..Len(Requirements) :
          LET Req == Requirements[i] IN
          \/ Req.RequiredBuildingType = None
          \/ FoundMatch(Req, GridOrigin, FloorLevel)

\* ABuildingGridManager::CheckAdjacencyRequirements
CheckAdjacencyRequirements(Requirements, GridOrigin, FloorLevel) ==
    \/ Len(Requirements) = 0
    \/ \A i \in 1..Len(Requirements) :
          LET Req == Requirements[i] IN
          \/ Req.RequiredBuildingType = None
          \/ IF Req.bIsNegativeRequirement
             THEN ~FoundMatch(Req, GridOrigin, FloorLevel)
             ELSE FoundMatch(Req, GridOrigin, FloorLevel)

\* a target floor that is always the detected one
TargetFloor_AlwaysDetected(WorldLocation, FloorLevel) ==
    WorldToGrid(WorldLocation).Floor

\* the floor the three placement calls work on: the detected floor when the
\* FloorLevel argument is negative
TargetFloor(WorldLocation, FloorLevel) ==
    IF FloorLevel < 0 THEN WorldToGrid(WorldLocation).Floor ELSE FloorLevel

\* ABuildingGridManager::CanPlaceBuilding
CanPlaceBuilding(BuildingAsset, WorldLocation, Rotation, FloorLevel) ==
    /\ BuildingAsset # None
    /\ LET GridOrigin == WorldToGrid(WorldLocation).Pos
           Floor == TargetFloor(WorldLocation, FloorLevel)
       IN  /\ AreCellsAvailableForBuilding(AssetDef(BuildingAsset).Footprint,
                                           GridOrigin, Rotation, Floor)
           /\ CheckAdjacencyRequirements(AssetDef(BuildingAsset).AdjacencyRequirements,
                                         GridOrigin, Floor)

\* MarkCellsAsOccupied that records each cell's own position as the origin
MarkCellsAsOccupied_OwnOrigin(Footprint, GridOrigin, Rotation, FloorLevel, Building) ==
    LET OccupiedCells == Range(GetOccupiedCellPositions(Footprint, GridOrigin, Rotation)) IN
    [f \in DOMAIN GridData |-> [y \in DOMAIN GridData[f] |-> [x \in DOMAIN GridData[f][y] |->
        IF f = FloorLevel /\ Point(x, y) \in OccupiedCells
           /\ IsValidGridPosition(Point(x, y), FloorLevel)
        THEN [GridData[f][y][x] EXCEPT !.bIsOccupied = TRUE,
                                       !.OccupyingObject = Building,
                                       !.ObjectOrigin = Point(x, y)]
        ELSE GridData[f][y][x]]]]

\* ABuildingGridManager::MarkCellsAsOccupied: the store afterwards
MarkCellsAsOccupied(Footprint, GridOrigin, Rotation, FloorLevel, Building) ==
    LET OccupiedCells == Range(GetOccupiedCellPositions(Footprint, GridOrigin, Rotation)) IN
    [f \in DOMAIN GridData |-> [y \in DOMAIN GridData[f] |-> [x \in DOMAIN GridData[f][y] |->
        IF f = FloorLevel /\ Point(x, y) \in OccupiedCells
           /\ IsValidGridPosition(Point(x, y), FloorLevel)
        THEN [GridData[f][y][x] EXCEPT !.bIsOccupied = TRUE,
                                       !.OccupyingObject = Building,
                                       !.ObjectOrigin = GridOrigin]
        ELSE GridData[f][y][x]]]]

\* MarkCellsAsUnoccupied that leaves the origin of the removed building in the
\* cells
MarkCellsAsUnoccupied_KeepOrigin(Footprint, GridOrigin, Rotation, FloorLevel) ==
    LET OccupiedCells == Range(GetOccupiedCellPositions(Footprint, GridOrigin, Rotation)) IN
    [f \in DOMAIN GridData |-> [y \in DOMAIN GridData[f] |-> [x \in DOMAIN GridData[f][y] |->
        IF f = FloorLevel /\ Point(x, y) \in OccupiedCells
           /\ IsValidGridPosition(Point(x, y), FloorLevel)
        THEN [GridData[f][y][x] EXCEPT !.bIsOccupied = FALSE,
                                       !.OccupyingObject = NullActor]
        ELSE GridData[f][y][x]]]]

\* MarkCellsAsUnoccupied that forgets to clear the back-reference
MarkCellsAsUnoccupied_KeepObject(Footprint, GridOrigin, Rotation, FloorLevel) ==
    LET OccupiedCells == Range(GetOccupiedCellPositions(Footprint, GridOrigin, Rotation)) IN
    [f \in DOMAIN GridData |-> [y \in DOMAIN GridData[f] |-> [x \in DOMAIN GridData[f][y] |->
        IF f = FloorLevel /\ Point(x, y) \in OccupiedCells
           /\ IsValidGridPosition(Point(x, y), FloorLevel)
        THEN [GridData[f][y][x] EXCEPT !.bIsOccupied = FALSE,
                                       !.ObjectOrigin = Point(x, y)]
        ELSE GridData[f][y][x]]]]

\* ABuildingGridManager::MarkCellsAsUnoccupied: the store afterwards
MarkCellsAsUnoccupied(Footprint, GridOrigin, Rotation, FloorLevel) ==
    LET OccupiedCells == Range(GetOccupiedCellPositions(Footprint, GridOrigin, Rotation)) IN
    [f \in DOMAIN GridData |-> [y \in DOMAIN GridData[f] |-> [x \in DOMAIN GridData[f][y] |->
        IF f = FloorLevel /\ Point(x, y) \in OccupiedCells
           /\ IsValidGridPosition(Point(x, y), FloorLevel)
        THEN [GridData[f][y][x] EXCEPT !.bIsOccupied = FALSE,
                                       !.OccupyingObject = NullActor,
                                       !.ObjectOrigin = Point(x, y)]
        ELSE GridData[f][y][x]]]]
\* the record of a public call: the operation and what it returned
Call(op, ret) == [op |-> op, ret |-> ret]

----------------------------------------------------------------------------
(* State after construction and BeginPlay: InitializeGrid with the configured size *)

Init ==
    \E cfg \in GridConfigs :
        /\ GridSizeX = cfg[1]
        /\ GridSizeY = cfg[2]
        /\ CellSize = DefaultCellSize
        /\ MaxFloors = cfg[3]
        /\ GridData = InitialGridData(cfg[1], cfg[2], cfg[3])
        /\ ActiveFloorLevel = 0
        /\ bGridVisualizationEnabled = FALSE
        /\ Buildings = << >>
        /\ SelectedBuildingAsset = None
        /\ bBuildingModeActive = FALSE
        /\ CurrentRotation = 0
        /\ CurrentFloorLevel = 0
        /\ lastCall = Call("BeginPlay", FALSE)

----------------------------------------------------------------------------
(* The public operations: what a call returns and the state it leaves.       *)
(* UpdateAllCellVisuals and UpdateCellVisual return at once while            *)
(* bGridVisualizationEnabled is false; when it is true they write only mesh  *)
(* instances, which are not in the state (their lookups are below).          *)

\* the outcome of a call: the returned value, the store and the actors afterwards
Outcome(ret, Grid, Actors) == [ret |-> ret, GridData |-> Grid, Buildings |-> Actors]

\* PlaceBuilding that marks the cells before it looks at the spawned actor
PlaceBuilding_MarkBeforeSpawn(BuildingAsset, WorldLocation, Rotation, FloorLevel) ==
    IF ~CanPlaceBuilding(BuildingAsset, WorldLocation, Rotation, FloorLevel)
    THEN Outcome(NullActor, GridData, Buildings)
    ELSE LET GridOrigin == WorldToGrid(WorldLocation).Pos
             Floor == TargetFloor(WorldLocation, FloorLevel)
             Building == SpawnActor(AssetDef(BuildingAsset).BuildingClass)
             Marked == MarkCellsAsOccupied(AssetDef(BuildingAsset).Footprint,
                                           GridOrigin, Rotation, Floor, Building)
         IN  IF Building # NullActor
             THEN Outcome(Building, Marked,
                          [b \in LiveBuildings \cup {Building} |->
                              IF b = Building
                              THEN SetGridProperties(
                                       InitializeFromAsset(NewBuildingObject, BuildingAsset),
                                       GridOrigin, Floor, Rotation)
                              ELSE Buildings[b]])
             ELSE Outcome(NullActor, Marked, Buildings)

\* ABuildingGridManager::PlaceBuilding
PlaceBuilding(BuildingAsset, WorldLocation, Rotation, FloorLevel) ==
    IF ~CanPlaceBuilding(BuildingAsset, WorldLocation, Rotation, FloorLevel)
    THEN Outcome(NullActor, GridData, Buildings)
    ELSE LET GridOrigin == WorldToGrid(WorldLocation).Pos
             Floor == TargetFloor(WorldLocation, FloorLevel)
             Building == SpawnActor(AssetDef(BuildingAsset).BuildingClass)
         IN  IF Building # NullActor
             THEN Outcome(Building,
                          MarkCellsAsOccupied(AssetDef(BuildingAsset).Footprint,
                                              GridOrigin, Rotation, Floor, Building),
                          [b \in LiveBuildings \cup {Building} |->
                              IF b = Building
                              THEN SetGridProperties(
                                       InitializeFromAsset(NewBuildingObject, BuildingAsset),
                                       GridOrigin, Floor, Rotation)
                              ELSE Buildings[b]])
             ELSE Outcome(NullActor, GridData, Buildings)

\* RemoveBuilding that clears the footprint from the given cell instead of the
\* building's origin
RemoveBuilding_AtPosition(GridPosition, FloorLevel) ==
    IF ~IsValidGridPosition(GridPosition, FloorLevel)
    THEN Outcome(FALSE, GridData, Buildings)
    ELSE LET Cell == CellAt(GridPosition, FloorLevel) IN
         IF ~Cell.bIsOccupied \/ Cell.OccupyingObject = NullActor
         THEN Outcome(FALSE, GridData, Buildings)
         ELSE LET Building == Cell.OccupyingObject
                  B == Buildings[Building]
              IN  Outcome(TRUE,
                          MarkCellsAsUnoccupied(GetFootprint(B), GridPosition,
                                                B.GridRotation, FloorLevel),
                          [b \in LiveBuildings \ {Building} |-> Buildings[b]])

\* RemoveBuilding that does not look at the occupancy of the cell
RemoveBuilding_NoOccupiedCheck(GridPosition, FloorLevel) ==
    IF ~IsValidGridPosition(GridPosition, FloorLevel)
    THEN Outcome(FALSE, GridData, Buildings)
    ELSE LET Cell == CellAt(GridPosition, FloorLevel) IN
         IF Cell.OccupyingObject = NullActor
         THEN Outcome(TRUE,
                      MarkCellsAsUnoccupied(RectFootprint(1, 1), GridPosition, 0, FloorLevel),
                      Buildings)
         ELSE LET Building == Cell.OccupyingObject
                  B == Buildings[Building]
              IN  Outcome(TRUE,
                          MarkCellsAsUnoccupied(GetFootprint(B), B.GridOrigin,
                                                B.GridRotation, B.FloorLevel),
                          [b \in LiveBuildings \ {Building} |-> Buildings[b]])

\* ABuildingGridManager::RemoveBuilding
RemoveBuilding(GridPosition, FloorLevel) ==
    IF ~IsValidGridPosition(GridPosition, FloorLevel)
    THEN Outcome(FALSE, GridData, Buildings)
    ELSE LET Cell == CellAt(GridPosition, FloorLevel) IN
         IF ~Cell.bIsOccupied \/ Cell.OccupyingObject = NullActor
         THEN Outcome(FALSE, GridData, Buildings)
         ELSE LET Building == Cell.OccupyingObject
                  B == Buildings[Building]
              IN  Outcome(TRUE,
                          MarkCellsAsUnoccupied(GetFootprint(B), B.GridOrigin,
                                                B.GridRotation, B.FloorLevel),
                          [b \in LiveBuildings \ {Building} |-> Buildings[b]])

\* ABuildingGridManager::ResetCellVisualStates: the store afterwards
ResetCellVisualStates ==
    [f \in DOMAIN GridData |-> [y \in DOMAIN GridData[f] |-> [x \in DOMAIN GridData[f][y] |->
        [GridData[f][y][x] EXCEPT !.VisualState = "Normal"]]]]

\* UpdatePlacementPreview that marks the previewed cells as occupied
UpdatePlacementPreview_Occupies(BuildingAsset, WorldLocation, Rotation, FloorLevel) ==
    LET Reset == ResetCellVisualStates IN
    IF BuildingAsset = None THEN Reset
    ELSE LET GridOrigin == WorldToGrid(WorldLocation).Pos
             Floor == TargetFloor(WorldLocation, FloorLevel)
             OccupiedCells == Range(GetOccupiedCellPositions(
                                 AssetDef(BuildingAsset).Footprint, GridOrigin, Rotation))
             bIsValidPlacement == CanPlaceBuilding(BuildingAsset, WorldLocation,
                                                   Rotation, FloorLevel)
         IN  [f \in DOMAIN Reset |-> [y \in DOMAIN Reset[f] |-> [x \in DOMAIN Reset[f][y] |->
                IF f = Floor /\ Point(x, y) \in OccupiedCells
                   /\ IsValidGridPosition(Point(x, y), Floor)
                THEN [Reset[f][y][x] EXCEPT !.bIsOccupied = TRUE,
                                            !.VisualState =
                         IF bIsValidPlacement THEN "Valid" ELSE "Invalid"]
                ELSE Reset[f][y][x]]]]

\* UpdatePlacementPreview that looks at the asset before it resets the marks
UpdatePlacementPreview_AssetFirst(BuildingAsset, WorldLocation, Rotation, FloorLevel) ==
    IF BuildingAsset = None THEN GridData
    ELSE LET Reset == ResetCellVisualStates
             GridOrigin == WorldToGrid(WorldLocation).Pos
             Floor == TargetFloor(WorldLocation, FloorLevel)
             OccupiedCells == Range(GetOccupiedCellPositions(
                                 AssetDef(BuildingAsset).Footprint, GridOrigin, Rotation))
             bIsValidPlacement == CanPlaceBuilding(BuildingAsset, WorldLocation,
                                                   Rotation, FloorLevel)
         IN  [f \in DOMAIN Reset |-> [y \in DOMAIN Reset[f] |-> [x \in DOMAIN Reset[f][y] |->
                IF f = Floor /\ Point(x, y) \in OccupiedCells
                   /\ IsValidGridPosition(Point(x, y), Floor)
                THEN [Reset[f][y][x] EXCEPT !.VisualState =
                         IF bIsValidPlacement THEN "Valid" ELSE "Invalid"]
                ELSE Reset[f][y][x]]]]

\* UpdatePlacementPreview that does not reset the earlier marks
UpdatePlacementPreview_NoReset(BuildingAsset, WorldLocation, Rotation, FloorLevel) ==
    IF BuildingAsset = None THEN GridData
    ELSE LET GridOrigin == WorldToGrid(WorldLocation).Pos
             Floor == TargetFloor(WorldLocation, FloorLevel)
             OccupiedCells == Range(GetOccupiedCellPositions(
                                 AssetDef(BuildingAsset).Footprint, GridOrigin, Rotation))
             bIsValidPlacement == CanPlaceBuilding(BuildingAsset, WorldLocation,
                                                   Rotation, FloorLevel)
         IN  [f \in DOMAIN GridData |-> [y \in DOMAIN GridData[f] |->
                [x \in DOMAIN GridData[f][y] |->
                    IF f = Floor /\ Point(x, y) \in OccupiedCells
                       /\ IsValidGridPosition(Point(x, y), Floor)
                    THEN [GridData[f][y][x] EXCEPT !.VisualState =
                             IF bIsValidPlacement THEN "Valid" ELSE "Invalid"]
                    ELSE GridData[f][y][x]]]]

\* ABuildingGridManager::UpdatePlacementPreview: the store afterwards
UpdatePlacementPreview(BuildingAsset, WorldLocation, Rotation, FloorLevel) ==
    LET Reset == ResetCellVisualStates IN
    IF BuildingAsset = None THEN Reset
    ELSE LET GridOrigin == WorldToGrid(WorldLocation).Pos
             Floor == TargetFloor(WorldLocation, FloorLevel)
             OccupiedCells == Range(GetOccupiedCellPositions(
                                 AssetDef(BuildingAsset).Footprint, GridOrigin, Rotation))
             bIsValidPlacement == CanPlaceBuilding(BuildingAsset, WorldLocation,
                                                   Rotation, FloorLevel)
         IN  [f \in DOMAIN Reset |-> [y \in DOMAIN Reset[f] |-> [x \in DOMAIN Reset[f][y] |->
                IF f = Floor /\ Point(x, y) \in OccupiedCells
                   /\ IsValidGridPosition(Point(x, y), Floor)
                THEN [Reset[f][y][x] EXCEPT !.VisualState =
                         IF bIsValidPlacement THEN "Valid" ELSE "Invalid"]
                ELSE Reset[f][y][x]]]]

\* the world has an actor id left for the building this call would spawn
WithinBound(BuildingAsset, WorldLocation, Rotation, FloorLevel) ==
    (/\ CanPlaceBuilding(BuildingAsset, WorldLocation, Rotation, FloorLevel)
     /\ AssetDef(BuildingAsset).BuildingClass # None)
    => LiveBuildings # BuildingIds

\* ABuildingGridManager::GetCellData: the cell, or a default cell for a
\* position outside the grid
GetCellData(GridPosition, FloorLevel) ==
    IF IsValidGridPosition(GridPosition, FloorLevel)
    THEN CellAt(GridPosition, FloorLevel)
    ELSE [GridPosition |-> Point(0, 0), FloorLevel |-> 0, bIsOccupied |-> FALSE,
          bIsWalkable |-> TRUE, ObjectOrigin |-> Point(0, 0), OccupyingObject |-> NullActor,
          PathCost |-> 1, VisualState |-> "Normal",
          bHasWaterConnection |-> FALSE, bHasElectricalConnection |-> FALSE]

----------------------------------------------------------------------------
(* Store lookups: the indexes <<floor, row, column>> at which a call reads or *)
(* writes GridData[floor].GetRow(row).GetCell(column). A lookup outside the   *)
(* store fails a check() where checks are compiled in and reads outside the  *)
(* arrays otherwise; the mesh instances it would colour are not part of the  *)
(* state, so the call leaves the state below either way, or no state at all. *)

\* the lookups UpdateAllCellVisuals makes through UpdateCellVisual: every cell
\* of floor Floor, unguarded, when visualization is enabled
UpdateAllCellVisualsLookups(bEnabled, Floor, SizeX, SizeY) ==
    IF ~bEnabled THEN {}
    ELSE { <<Floor, Y, X>> : Y \in 0..(SizeY - 1), X \in 0..(SizeX - 1) }

\* the lookups made for cells after IsValidGridPosition(Cell, FloorLevel)
GuardedLookups(Cells, FloorLevel) ==
    { <<FloorLevel, Cell.Y, Cell.X>> :
        Cell \in { c \in Cells : IsValidGridPosition(c, FloorLevel) } }

\* InitializeGrid: every cell of the new store, then UpdateAllCellVisuals
InitializeGridLookups(SizeX, SizeY, MaxFloorsValue) ==
    { <<Floor, Y, X>> : Floor \in 0..(MaxFloorsValue - 1), Y \in 0..(SizeY - 1),
                        X \in 0..(SizeX - 1) }
    \cup UpdateAllCellVisualsLookups(bGridVisualizationEnabled, ActiveFloorLevel, SizeX, SizeY)

\* SetActiveFloorLevel: UpdateAllCellVisuals on the clamped floor
SetActiveFloorLevelLookups(FloorLevel) ==
    UpdateAllCellVisualsLookups(bGridVisualizationEnabled,
                                Clamp(FloorLevel, 0, MaxFloors - 1), GridSizeX, GridSizeY)

\* SetGridVisualizationEnabled: UpdateAllCellVisuals when enabling
SetGridVisualizationEnabledLookups(bEnabled) ==
    UpdateAllCellVisualsLookups(bEnabled, ActiveFloorLevel, GridSizeX, GridSizeY)

\* GetCellData
GetCellDataLookups(GridPosition, FloorLevel) == GuardedLookups({GridPosition}, FloorLevel)

\* CanPlaceBuilding: at most the footprint cells on the target floor and the
\* floor below, and the neighbours of the origin
CanPlaceBuildingLookups(BuildingAsset, WorldLocation, Rotation, FloorLevel) ==
    IF BuildingAsset = None THEN {}
    ELSE LET GridOrigin == WorldToGrid(WorldLocation).Pos
             Floor == TargetFloor(WorldLocation, FloorLevel)
             OccupiedCells == Range(GetOccupiedCellPositions(
                                 AssetDef(BuildingAsset).Footprint, GridOrigin, Rotation))
         IN  GuardedLookups(OccupiedCells, Floor)
             \cup { <<l[1] - 1, l[2], l[3]>> : l \in { g \in GuardedLookups(OccupiedCells, Floor) :
                                                          Floor > 0 } }
             \cup GuardedLookups(Range(CellsToCheck("Any", GridOrigin)), Floor)

\* PlaceBuilding: CanPlaceBuilding, MarkCellsAsOccupied and, with a building
\* spawned, UpdateAllCellVisuals
PlaceBuildingLookups(BuildingAsset, WorldLocation, Rotation, FloorLevel) ==
    CanPlaceBuildingLookups(BuildingAsset, WorldLocation, Rotation, FloorLevel)
    \cup (IF PlaceBuilding(BuildingAsset, WorldLocation, Rotation, FloorLevel).ret # NullActor
          THEN UpdateAllCellVisualsLookups(bGridVisualizationEnabled, ActiveFloorLevel,
                                           GridSizeX, GridSizeY)
          ELSE {})

\* RemoveBuilding: the cell, MarkCellsAsUnoccupied and, with a building
\* removed, UpdateAllCellVisuals
RemoveBuildingLookups(GridPosition, FloorLevel) ==
    GuardedLookups({GridPosition}, FloorLevel)
    \cup (IF RemoveBuilding(GridPosition, FloorLevel).ret
          THEN LET B == Buildings[CellAt(GridPosition, FloorLevel).OccupyingObject] IN
               GuardedLookups(Range(GetOccupiedCellPositions(GetFootprint(B), B.GridOrigin,
                                                             B.GridRotation)), B.FloorLevel)
               \cup UpdateAllCellVisualsLookups(bGridVisualizationEnabled, ActiveFloorLevel,
                                                GridSizeX, GridSizeY)
          ELSE {})

\* UpdatePlacementPreview: ResetCellVisualStates on every cell, CanPlaceBuilding
\* and the footprint cells inside the grid
UpdatePlacementPreviewLookups(BuildingAsset, WorldLocation, Rotation, FloorLevel) ==
    { <<Floor, Y, X>> : Floor \in 0..(MaxFloors - 1), Y \in 0..(GridSizeY - 1),
                        X \in 0..(GridSizeX - 1) }
    \cup CanPlaceBuildingLookups(BuildingAsset, WorldLocation, Rotation, FloorLevel)

----------------------------------------------------------------------------
(* The calls *)

\* a call of ABuildingGridManager::InitializeGrid
InitializeGrid(SizeX, SizeY, CellSizeValue, MaxFloorsValue) ==
    /\ GridSizeX' = SizeX
    /\ GridSizeY' = SizeY
    /\ CellSize' = CellSizeValue
    /\ MaxFloors' = MaxFloorsValue
    /\ GridData' = InitialGridData(SizeX, SizeY, MaxFloorsValue)
    /\ lastCall' = Call("InitializeGrid", FALSE)
    /\ UNCHANGED <<controller, ActiveFloorLevel, bGridVisualizationEnabled, Buildings>>

\* a call of ABuildingGridManager::CanPlaceBuilding
CanPlaceBuildingCall(BuildingAsset, WorldLocation, Rotation, FloorLevel) ==
    /\ lastCall' = Call("CanPlaceBuilding",
                        CanPlaceBuilding(BuildingAsset, WorldLocation, Rotation, FloorLevel))
    /\ UNCHANGED <<controller, GridSizeX, GridSizeY, CellSize, MaxFloors, GridData, ActiveFloorLevel,
                   bGridVisualizationEnabled, Buildings>>

\* a call of ABuildingGridManager::PlaceBuilding
PlaceBuildingCall(BuildingAsset, WorldLocation, Rotation, FloorLevel) ==
    /\ WithinBound(BuildingAsset, WorldLocation, Rotation, FloorLevel)
    /\ LET Result == PlaceBuilding(BuildingAsset, WorldLocation, Rotation, FloorLevel) IN
       /\ GridData' = Result.GridData
       /\ Buildings' = Result.Buildings
       /\ lastCall' = Call("PlaceBuilding", Result.ret)
    /\ UNCHANGED <<controller, GridSizeX, GridSizeY, CellSize, MaxFloors, ActiveFloorLevel,
                   bGridVisualizationEnabled>>

\* a call of ABuildingGridManager::RemoveBuilding
RemoveBuildingCall(GridPosition, FloorLevel) ==
    /\ LET Result == RemoveBuilding(GridPosition, FloorLevel) IN
       /\ GridData' = Result.GridData
       /\ Buildings' = Result.Buildings
       /\ lastCall' = Call("RemoveBuilding", Result.ret)
    /\ UNCHANGED <<controller, GridSizeX, GridSizeY, CellSize, MaxFloors, ActiveFloorLevel,
                   bGridVisualizationEnabled>>

\* a call of ABuildingGridManager::ResetCellVisualStates
ResetCellVisualStatesCall ==
    /\ GridData' = ResetCellVisualStates
    /\ lastCall' = Call("ResetCellVisualStates", FALSE)
    /\ UNCHANGED <<controller, GridSizeX, GridSizeY, CellSize, MaxFloors, ActiveFloorLevel,
                   bGridVisualizationEnabled, Buildings>>

\* a call of ABuildingGridManager::UpdatePlacementPreview
UpdatePlacementPreviewCall(BuildingAsset, WorldLocation, Rotation, FloorLevel) ==
    /\ GridData' = UpdatePlacementPreview(BuildingAsset, WorldLocation, Rotation, FloorLevel)
    /\ lastCall' = Call("UpdatePlacementPreview", FALSE)
    /\ UNCHANGED <<controller, GridSizeX, GridSizeY, CellSize, MaxFloors, ActiveFloorLevel,
                   bGridVisualizationEnabled, Buildings>>

\* a call of FBuildingFootprint::GetOccupiedCellPositions, recorded with its
\* arguments
GetOccupiedCellPositionsCall(Footprint, Origin, RotationQuarters) ==
    /\ lastCall' = [op |-> "GetOccupiedCellPositions",
                    ret |-> GetOccupiedCellPositions(Footprint, Origin, RotationQuarters),
                    Footprint |-> Footprint, Origin |-> Origin,
                    RotationQuarters |-> RotationQuarters]
    /\ UNCHANGED <<controller, GridSizeX, GridSizeY, CellSize, MaxFloors, GridData, ActiveFloorLevel,
                   bGridVisualizationEnabled, Buildings>>

----------------------------------------------------------------------------

\* every operation of the manager, on few inputs
Next ==
    \/ \E cfg \in GridConfigs : InitializeGrid(cfg[1], cfg[2], DefaultCellSize, cfg[3])
    \/ \E a \in LookArgs : CanPlaceBuildingCall(a[1], a[2], a[3], a[4])
    \/ \E a \in FewPlaceArgs : PlaceBuildingCall(a[1], a[2], a[3], a[4])
    \/ \E p \in RemovePositions, f \in RemoveFloors : RemoveBuildingCall(p, f)
    \/ \E a \in LookArgs : UpdatePlacementPreviewCall(a[1], a[2], a[3], a[4])
    \/ ResetCellVisualStatesCall

Spec == Init /\ [][Next]_vars

\* validation, placement and removal on a grid that is initialized once
NextPlacement ==
    \/ \E a \in LookArgs : CanPlaceBuildingCall(a[1], a[2], a[3], a[4])
    \/ \E a \in PlaceArgs : PlaceBuildingCall(a[1], a[2], a[3], a[4])
    \/ \E p \in RemovePositions, f \in RemoveFloors : RemoveBuildingCall(p, f)

SpecPlacement == Init /\ [][NextPlacement]_vars

\* placement and removal of buildings that are neighbours on the ground floor
NextNeighbours ==
    \/ \E a \in NeighbourLookArgs : CanPlaceBuildingCall(a[1], a[2], a[3], a[4])
    \/ \E a \in NeighbourPlaceArgs : PlaceBuildingCall(a[1], a[2], a[3], a[4])
    \/ \E p \in RemovePositions : RemoveBuildingCall(p, 0)

SpecNeighbours == Init /\ [][NextNeighbours]_vars

\* footprint queries
NextFootprint ==
    \E Footprint \in FootprintArgs, Origin \in OriginArgs, RotationQuarters \in QuarterArgs :
        GetOccupiedCellPositionsCall(Footprint, Origin, RotationQuarters)

SpecFootprint == Init /\ [][NextFootprint]_vars

\* SetActiveFloorLevel that stores its argument as it is
SetActiveFloorLevelCall_Unclamped(FloorLevel) ==
    /\ ActiveFloorLevel' = FloorLevel
    /\ lastCall' = Call("SetActiveFloorLevel", FALSE)
    /\ UNCHANGED <<controller, GridSizeX, GridSizeY, CellSize, MaxFloors, GridData,
                   bGridVisualizationEnabled, Buildings>>

\* a call of ABuildingGridManager::SetActiveFloorLevel
SetActiveFloorLevelCall(FloorLevel) ==
    /\ ActiveFloorLevel' = Clamp(FloorLevel, 0, MaxFloors - 1)
    /\ lastCall' = Call("SetActiveFloorLevel", FALSE)
    /\ UNCHANGED <<controller, GridSizeX, GridSizeY, CellSize, MaxFloors, GridData,
                   bGridVisualizationEnabled, Buildings>>

\* a call of ABuildingGridManager::SetGridVisualizationEnabled
SetGridVisualizationEnabledCall(bEnabled) ==
    /\ bGridVisualizationEnabled' = bEnabled
    /\ lastCall' = Call("SetGridVisualizationEnabled", FALSE)
    /\ UNCHANGED <<controller, GridSizeX, GridSizeY, CellSize, MaxFloors, GridData, ActiveFloorLevel,
                   Buildings>>

\* a call of ABuildingGridManager::GetCellData
GetCellDataCall(GridPosition, FloorLevel) ==
    /\ lastCall' = Call("GetCellData", GetCellData(GridPosition, FloorLevel))
    /\ UNCHANGED <<controller, GridSizeX, GridSizeY, CellSize, MaxFloors, GridData, ActiveFloorLevel,
                   bGridVisualizationEnabled, Buildings>>

\* the visualization calls and the cell query between initialization,
\* validation, placement and removal
NextVisuals ==
    \/ \E cfg \in GridConfigs : InitializeGrid(cfg[1], cfg[2], DefaultCellSize, cfg[3])
    \/ \E f \in ActiveFloorArgs : SetActiveFloorLevelCall(f)
    \/ \E b \in BOOLEAN : SetGridVisualizationEnabledCall(b)
    \/ \E p \in CellQueryPositions, f \in CellQueryFloors : GetCellDataCall(p, f)
    \/ \E a \in LookArgs : CanPlaceBuildingCall(a[1], a[2], a[3], a[4])
    \/ \E a \in FewPlaceArgs : PlaceBuildingCall(a[1], a[2], a[3], a[4])
    \/ \E p \in CellQueryPositions, f \in RemoveFloors : RemoveBuildingCall(p, f)

SpecVisuals == Init /\ [][NextVisuals]_vars

\* a call of ABuildingGridManager::WorldToGrid
WorldToGridCall(WorldPosition) ==
    /\ lastCall' = [op |-> "WorldToGrid", ret |-> WorldToGrid(WorldPosition),
                    WorldPosition |-> WorldPosition]
    /\ UNCHANGED <<controller, GridSizeX, GridSizeY, CellSize, MaxFloors, GridData, ActiveFloorLevel,
                   bGridVisualizationEnabled, Buildings>>

\* conversions of world positions on the grid as constructed
NextCoordinates == \E WorldPosition \in FarWorldPositions : WorldToGridCall(WorldPosition)

SpecCoordinates == Init /\ [][NextCoordinates]_vars

\* an ABuildingObject spawned by the world itself, not by the grid manager
SpawnBuildingObject ==
    /\ LiveBuildings # BuildingIds
    /\ LET Building == SpawnActor("ABuildingObject") IN
       /\ Buildings' = [b \in LiveBuildings \cup {Building} |->
                           IF b = Building THEN NewBuildingObject ELSE Buildings[b]]
       /\ lastCall' = Call("SpawnActor", Building)
    /\ UNCHANGED <<controller, GridSizeX, GridSizeY, CellSize, MaxFloors, GridData, ActiveFloorLevel,
                   bGridVisualizationEnabled>>

\* an entity call on Building that returns ret and leaves the building as B
EntityCall(op, Building, ret, B) ==
    /\ Buildings' = [Buildings EXCEPT ![Building] = B]
    /\ lastCall' = Call(op, ret)
    /\ UNCHANGED <<controller, GridSizeX, GridSizeY, CellSize, MaxFloors, GridData, ActiveFloorLevel,
                   bGridVisualizationEnabled>>

\* a call of ABuildingObject::InitializeFromAsset
InitializeFromAssetCall(Building, Asset) ==
    EntityCall("InitializeFromAsset", Building, FALSE,
               InitializeFromAsset(Buildings[Building], Asset))

\* a call of ABuildingObject::AssignStaffMember
AssignStaffMemberCall(Building, StaffMember) ==
    LET Result == AssignStaffMember(Buildings[Building], StaffMember) IN
    EntityCall("AssignStaffMember", Building, Result.ret, Result.Building)

\* a call of ABuildingObject::RemoveStaffMember
RemoveStaffMemberCall(Building, StaffMember) ==
    LET Result == RemoveStaffMember(Buildings[Building], StaffMember) IN
    EntityCall("RemoveStaffMember", Building, Result.ret, Result.Building)

\* a call of ABuildingObject::RegisterGuest
RegisterGuestCall(Building, Guest) ==
    LET Result == RegisterGuest(Buildings[Building], Guest) IN
    /\ Buildings' = [Buildings EXCEPT ![Building] = Result.Building]
    /\ lastCall' = [op |-> "RegisterGuest", ret |-> Result.ret, Guest |-> Guest]
    /\ UNCHANGED <<controller, GridSizeX, GridSizeY, CellSize, MaxFloors, GridData, ActiveFloorLevel,
                   bGridVisualizationEnabled>>

\* a call of ABuildingObject::RemoveGuest
RemoveGuestCall(Building, Guest) ==
    LET Result == RemoveGuest(Buildings[Building], Guest) IN
    EntityCall("RemoveGuest", Building, Result.ret, Result.Building)

\* a call of ABuildingObject::HasAvailableCapacity
HasAvailableCapacityCall(Building) ==
    EntityCall("HasAvailableCapacity", Building, HasAvailableCapacity(Buildings[Building]),
               Buildings[Building])

\* a call of ABuildingObject::IsOperational
IsOperationalCall(Building) ==
    EntityCall("IsOperational", Building, IsOperational(Buildings[Building]),
               Buildings[Building])

\* a call of ABuildingObject::OnDailyUpdate
OnDailyUpdateCall(Building) ==
    EntityCall("OnDailyUpdate", Building, FALSE, OnDailyUpdate(Buildings[Building]))

\* the life of the building entities: spawned or placed, then bound to assets,
\* staffed, visited and updated every day
NextEntity ==
    \/ SpawnBuildingObject
    \/ \E a \in EntityPlaceArgs : PlaceBuildingCall(a[1], a[2], a[3], a[4])
    \/ \E b \in EntityTargets \cap LiveBuildings, Asset \in EntityAssetArgs :
          InitializeFromAssetCall(b, Asset)
    \/ \E b \in EntityTargets \cap LiveBuildings, StaffMember \in StaffArgs :
          AssignStaffMemberCall(b, StaffMember)
    \/ \E b \in EntityTargets \cap LiveBuildings, StaffMember \in StaffArgs :
          RemoveStaffMemberCall(b, StaffMember)
    \/ \E b \in EntityTargets \cap LiveBuildings, Guest \in GuestArgs :
          RegisterGuestCall(b, Guest)
    \/ \E b \in EntityTargets \cap LiveBuildings, Guest \in GuestArgs :
          RemoveGuestCall(b, Guest)
    \/ \E b \in EntityTargets \cap LiveBuildings : HasAvailableCapacityCall(b)
    \/ \E b \in EntityTargets \cap LiveBuildings : IsOperationalCall(b)
    \/ \E b \in EntityTargets \cap LiveBuildings : OnDailyUpdateCall(b)

SpecEntity == Init /\ [][NextEntity]_vars

\* validation and preview between placements and removals
NextPreview ==
    \/ \E a \in PreviewCallArgs : CanPlaceBuildingCall(a[1], a[2], a[3], a[4])
    \/ \E a \in PreviewCallArgs : UpdatePlacementPreviewCall(a[1], a[2], a[3], a[4])
    \/ \E a \in FewPlaceArgs : PlaceBuildingCall(a[1], a[2], a[3], a[4])
    \/ \E p \in RemovePositions, f \in RemoveFloors : RemoveBuildingCall(p, f)
    \/ ResetCellVisualStatesCall

SpecPreview == Init /\ [][NextPreview]_vars

\* placements and removals only, on either floor
NextRoundTrip ==
    \/ \E a \in RoundTripPlaceArgs : PlaceBuildingCall(a[1], a[2], a[3], a[4])
    \/ \E p \in RemovePositions, f \in RemoveFloors : RemoveBuildingCall(p, f)

SpecRoundTrip == Init /\ [][NextRoundTrip]_vars

----------------------------------------------------------------------------
(* ABuildingController (BuildingController.cpp): the input events of the    *)
(* player. GridManager is the manager BeginPlay found or spawned; the cursor *)
(* trace of GetHitUnderCursor is an input of Tick and ConfirmPlacement.      *)

\* the result of GetHitUnderCursor: whether the trace hit and, if so, where
HitResult(bBlockingHit, Location) == [bBlockingHit |-> bBlockingHit, Location |-> Location]

\* the cursor hits no surface, or the ground over column 0 or column 1 of row 0
CursorLocations == { [X |-> 0, Y |-> 0, Z |-> 0], [X |-> 50, Y |-> 0, Z |-> 0] }
HitArgs ==
    { HitResult(FALSE, [X |-> 0, Y |-> 0, Z |-> 0]) }
    \cup { HitResult(TRUE, l) : l \in CursorLocations }

\* the assets the build menu hands to EnterBuildingMode (a suite, and an asset
\* without a building class, whose placement fails after validation), and the
\* null pointer
EnterAssetArgs == { "Suite", "Default", None }

\* ABuildingGridManager::ResetCellVisualStates on the store Grid
ResetVisualStates(Grid) ==
    [f \in DOMAIN Grid |-> [y \in DOMAIN Grid[f] |-> [x \in DOMAIN Grid[f][y] |->
        [Grid[f][y][x] EXCEPT !.VisualState = "Normal"]]]]

\* ABuildingController::EnterBuildingMode
EnterBuildingMode(BuildingAsset) ==
    /\ IF BuildingAsset = None
       THEN UNCHANGED <<controller, bGridVisualizationEnabled>>
       ELSE /\ bBuildingModeActive' = TRUE
            /\ SelectedBuildingAsset' = BuildingAsset
            /\ CurrentRotation' = 0
            /\ bGridVisualizationEnabled' = TRUE
            /\ UNCHANGED CurrentFloorLevel
    /\ lastCall' = Call("EnterBuildingMode", FALSE)
    /\ UNCHANGED <<GridSizeX, GridSizeY, CellSize, MaxFloors, GridData, ActiveFloorLevel,
                   Buildings>>

\* ExitBuildingMode that resets the visual states of the active floor only
ExitBuildingMode_ActiveFloorOnly(Grid) ==
    /\ bBuildingModeActive' = FALSE
    /\ SelectedBuildingAsset' = None
    /\ GridData' = [Grid EXCEPT ![ActiveFloorLevel] = ResetVisualStates(Grid)[ActiveFloorLevel]]
    /\ bGridVisualizationEnabled' = FALSE

\* ExitBuildingMode that leaves the preview marks on the cells
ExitBuildingMode_KeepsPreview(Grid) ==
    /\ bBuildingModeActive' = FALSE
    /\ SelectedBuildingAsset' = None
    /\ GridData' = Grid
    /\ bGridVisualizationEnabled' = FALSE

\* ABuildingController::ExitBuildingMode, called when the store is Grid
ExitBuildingMode(Grid) ==
    /\ bBuildingModeActive' = FALSE
    /\ SelectedBuildingAsset' = None
    /\ GridData' = ResetVisualStates(Grid)
    /\ bGridVisualizationEnabled' = FALSE

\* a call of ABuildingController::ExitBuildingMode
ExitBuildingModeCall ==
    /\ ExitBuildingMode(GridData)
    /\ lastCall' = Call("ExitBuildingMode", FALSE)
    /\ UNCHANGED <<GridSizeX, GridSizeY, CellSize, MaxFloors, ActiveFloorLevel, Buildings,
                   CurrentRotation, CurrentFloorLevel>>

\* ABuildingController::CancelPlacement
CancelPlacement ==
    /\ ExitBuildingMode(GridData)
    /\ lastCall' = Call("CancelPlacement", FALSE)
    /\ UNCHANGED <<GridSizeX, GridSizeY, CellSize, MaxFloors, ActiveFloorLevel, Buildings,
                   CurrentRotation, CurrentFloorLevel>>

\* RotateBuilding that does not look at the building mode
RotateBuilding_AnyMode ==
    /\ CurrentRotation' = (CurrentRotation + 1) % 4
    /\ lastCall' = Call("RotateBuilding", FALSE)
    /\ UNCHANGED <<GridSizeX, GridSizeY, CellSize, MaxFloors, GridData, ActiveFloorLevel,
                   bGridVisualizationEnabled, Buildings, SelectedBuildingAsset,
                   bBuildingModeActive, CurrentFloorLevel>>

\* ABuildingController::RotateBuilding
RotateBuilding ==
    /\ CurrentRotation' = IF bBuildingModeActive THEN (CurrentRotation + 1) % 4
                          ELSE CurrentRotation
    /\ lastCall' = Call("RotateBuilding", FALSE)
    /\ UNCHANGED <<GridSizeX, GridSizeY, CellSize, MaxFloors, GridData, ActiveFloorLevel,
                   bGridVisualizationEnabled, Buildings, SelectedBuildingAsset,
                   bBuildingModeActive, CurrentFloorLevel>>

\* ABuildingController::IncrementFloorLevel, with the SetActiveFloorLevel it
\* ends with
IncrementFloorLevel ==
    /\ LET FloorLevel == IF CurrentFloorLevel + 1 < MaxFloors - 1
                         THEN CurrentFloorLevel + 1 ELSE MaxFloors - 1
       IN  /\ CurrentFloorLevel' = FloorLevel
           /\ ActiveFloorLevel' = Clamp(FloorLevel, 0, MaxFloors - 1)
    /\ lastCall' = Call("IncrementFloorLevel", FALSE)
    /\ UNCHANGED <<GridSizeX, GridSizeY, CellSize, MaxFloors, GridData,
                   bGridVisualizationEnabled, Buildings, SelectedBuildingAsset,
                   bBuildingModeActive, CurrentRotation>>

\* DecrementFloorLevel that does not pass the floor on to the manager
DecrementFloorLevel_NoSetActive ==
    /\ CurrentFloorLevel' = IF CurrentFloorLevel > 0 THEN CurrentFloorLevel - 1
                            ELSE CurrentFloorLevel
    /\ lastCall' = Call("DecrementFloorLevel", FALSE)
    /\ UNCHANGED <<GridSizeX, GridSizeY, CellSize, MaxFloors, GridData, ActiveFloorLevel,
                   bGridVisualizationEnabled, Buildings, SelectedBuildingAsset,
                   bBuildingModeActive, CurrentRotation>>

\* ABuildingController::DecrementFloorLevel, with the SetActiveFloorLevel it
\* ends with
DecrementFloorLevel ==
    /\ IF CurrentFloorLevel > 0
       THEN LET FloorLevel == IF 0 > CurrentFloorLevel - 1 THEN 0
                              ELSE CurrentFloorLevel - 1
            IN  /\ CurrentFloorLevel' = FloorLevel
                /\ ActiveFloorLevel' = Clamp(FloorLevel, 0, MaxFloors - 1)
       ELSE UNCHANGED <<CurrentFloorLevel, ActiveFloorLevel>>
    /\ lastCall' = Call("DecrementFloorLevel", FALSE)
    /\ UNCHANGED <<GridSizeX, GridSizeY, CellSize, MaxFloors, GridData,
                   bGridVisualizationEnabled, Buildings, SelectedBuildingAsset,
                   bBuildingModeActive, CurrentRotation>>

\* ABuildingController::Tick with the cursor trace Hit
Tick(Hit) ==
    /\ GridData' = IF bBuildingModeActive /\ SelectedBuildingAsset # None
                      /\ Hit.bBlockingHit
                   THEN UpdatePlacementPreview(SelectedBuildingAsset, Hit.Location,
                                               CurrentRotation, CurrentFloorLevel)
                   ELSE GridData
    /\ lastCall' = Call("Tick", FALSE)
    /\ UNCHANGED <<controller, GridSizeX, GridSizeY, CellSize, MaxFloors, ActiveFloorLevel,
                   bGridVisualizationEnabled, Buildings>>

\* ConfirmPlacement that leaves building mode whenever it tried to place
ConfirmPlacement_AlwaysExits(Hit) ==
    IF bBuildingModeActive /\ SelectedBuildingAsset # None /\ Hit.bBlockingHit
    THEN /\ WithinBound(SelectedBuildingAsset, Hit.Location, CurrentRotation,
                        CurrentFloorLevel)
         /\ LET Result == PlaceBuilding(SelectedBuildingAsset, Hit.Location,
                                        CurrentRotation, CurrentFloorLevel)
            IN  /\ Buildings' = Result.Buildings
                /\ ExitBuildingMode(Result.GridData)
                /\ lastCall' = [op |-> "ConfirmPlacement", ret |-> Result.ret, Hit |-> Hit]
         /\ UNCHANGED <<GridSizeX, GridSizeY, CellSize, MaxFloors, ActiveFloorLevel,
                        CurrentRotation, CurrentFloorLevel>>
    ELSE /\ lastCall' = [op |-> "ConfirmPlacement", ret |-> NullActor, Hit |-> Hit]
         /\ UNCHANGED <<controller, GridSizeX, GridSizeY, CellSize, MaxFloors, GridData,
                        ActiveFloorLevel, bGridVisualizationEnabled, Buildings>>

\* ABuildingController::ConfirmPlacement with the cursor trace Hit, recorded
\* with the trace and the building PlaceBuilding returned (NullActor when it
\* was not called)
ConfirmPlacement(Hit) ==
    IF bBuildingModeActive /\ SelectedBuildingAsset # None /\ Hit.bBlockingHit
    THEN /\ WithinBound(SelectedBuildingAsset, Hit.Location, CurrentRotation,
                        CurrentFloorLevel)
         /\ LET Result == PlaceBuilding(SelectedBuildingAsset, Hit.Location,
                                        CurrentRotation, CurrentFloorLevel)
                PlacedBuilding == Result.ret
            IN  /\ Buildings' = Result.Buildings
                /\ IF PlacedBuilding # NullActor
                   THEN ExitBuildingMode(Result.GridData)
                   ELSE /\ GridData' = Result.GridData
                        /\ UNCHANGED <<bBuildingModeActive, SelectedBuildingAsset,
                                       bGridVisualizationEnabled>>
                /\ lastCall' = [op |-> "ConfirmPlacement", ret |-> PlacedBuilding,
                                Hit |-> Hit]
         /\ UNCHANGED <<GridSizeX, GridSizeY, CellSize, MaxFloors, ActiveFloorLevel,
                        CurrentRotation, CurrentFloorLevel>>
    ELSE /\ lastCall' = [op |-> "ConfirmPlacement", ret |-> NullActor, Hit |-> Hit]
         /\ UNCHANGED <<controller, GridSizeX, GridSizeY, CellSize, MaxFloors, GridData,
                        ActiveFloorLevel, bGridVisualizationEnabled, Buildings>>

\* the events of the controller on a grid that is initialized once
NextController ==
    \/ \E Asset \in EnterAssetArgs : EnterBuildingMode(Asset)
    \/ ExitBuildingModeCall
    \/ CancelPlacement
    \/ RotateBuilding
    \/ IncrementFloorLevel
    \/ DecrementFloorLevel
    \/ \E Hit \in HitArgs : Tick(Hit)
    \/ \E Hit \in HitArgs : ConfirmPlacement(Hit)

SpecController == Init /\ [][NextController]_vars

----------------------------------------------------------------------------
(* Properties *)

\* the occupancy data of a cell
Occupancy(Cell) ==
    [bIsOccupied |-> Cell.bIsOccupied, OccupyingObject |-> Cell.OccupyingObject,
     ObjectOrigin |-> Cell.ObjectOrigin]

\* C1: after any sequence of InitializeGrid, PlaceBuilding, RemoveBuilding,
\* UpdatePlacementPreview and ResetCellVisualStates calls, every cell on every
\* floor is occupied exactly when it has an occupying object.
C1_OccupancyConsistent ==
    \A f \in Floors : \A p \in Positions :
        CellAt(p, f).bIsOccupied = (CellAt(p, f).OccupyingObject # NullActor)

\* a building has been removed while another one still occupies its cells
C1_Witness ==
    /\ lastCall.op = "RemoveBuilding" /\ lastCall.ret = TRUE
    /\ \E f \in Floors : \E p \in Positions : CellAt(p, f).bIsOccupied
    /\ \E f \in Floors : \E p \in Positions : ~CellAt(p, f).bIsOccupied

\* C2: for every in-bounds grid position and floor, WorldToGrid(GridToWorld(pos,
\* floor)) is (pos, floor).
C2_RoundTrip ==
    \A f \in Floors : \A p \in Positions :
        WorldToGrid(GridToWorld(p, f)) = [Pos |-> p, Floor |-> f]

\* what the code does instead: the floor comes back, the column and the row come
\* back one higher (saturated at the last column and row)
C2_RoundTripIsOneOff ==
    \A f \in Floors : \A p \in Positions :
        WorldToGrid(GridToWorld(p, f)) =
            [Pos |-> Point(Clamp(p.X + 1, 0, GridSizeX - 1), Clamp(p.Y + 1, 0, GridSizeY - 1)),
             Floor |-> f]

\* the world location of the scenario
C3_Location == [X |-> 150, Y |-> 150, Z |-> 0]

\* on the 3x3 grid with 1 floor and cell size 100, the last call has placed a
\* StandardRoom at the scenario's world location with rotation 0 on floor 0, as
\* the first building
C3_RoomPlaced ==
    /\ GridSizeX = 3 /\ GridSizeY = 3 /\ MaxFloors = 1 /\ CellSize = 100
    /\ lastCall.op = "PlaceBuilding"
    /\ lastCall.ret # NullActor
    /\ DOMAIN Buildings = {lastCall.ret}
    /\ Buildings[lastCall.ret].BuildingType = "StandardRoom"
    /\ Buildings[lastCall.ret].GridOrigin = WorldToGrid(C3_Location).Pos
    /\ Buildings[lastCall.ret].FloorLevel = 0
    /\ Buildings[lastCall.ret].GridRotation = 0

\* C3: on a 3x3 grid with 1 floor and cell size 100, PlaceBuilding of a 1x1
\* StandardRoom at world (150,150,0) with rotation 0 resolves to grid (1,1) on
\* floor 0, succeeds and occupies cell (1,1); then CanPlaceBuilding at the same
\* world location is false, RemoveBuilding((1,1), 0) returns true and leaves
\* cell (1,1) unoccupied.
C3_Scenario ==
    C3_RoomPlaced =>
        /\ WorldToGrid(C3_Location) = [Pos |-> Point(1, 1), Floor |-> 0]
        /\ CellAt(Point(1, 1), 0).bIsOccupied
        /\ ~CanPlaceBuilding("Room", C3_Location, 0, 0)
        /\ RemoveBuilding(Point(1, 1), 0).ret = TRUE
        /\ ~RemoveBuilding(Point(1, 1), 0).GridData[0][1][1].bIsOccupied

\* the occupancy data of the cell at position p of floor f in a store
OccupancyAt(Grid, p, f) == Occupancy(Grid[f][p.Y][p.X])

\* the arguments the validation properties range over
CheckRotations == { -1, 0, 1, 3 }
CheckFloors == { -1, 0, 1, 2 }
CheckArgs ==
    { a \in AssetNames \X WorldLocations \X CheckRotations \X CheckFloors :
        /\ (a[4] < 0 \/ a[2].Z = 0)
        /\ (AssetDef(a[1]).Footprint = RectFootprint(1, 1) => a[3] = 0) }

\* the target floor of a placement call: the floor the world location lies on
\* when the floor argument is negative, the floor argument otherwise
ResolvedFloor(WorldLocation, FloorLevel) ==
    IF FloorLevel < 0 THEN Clamp(WorldLocation.Z \div FloorHeight, 0, MaxFloors - 1)
    ELSE FloorLevel

\* the neighbour of a position in a direction
Neighbour(p, Direction) ==
    CASE Direction = "North" -> Point(p.X, p.Y - 1)
      [] Direction = "East" -> Point(p.X + 1, p.Y)
      [] Direction = "South" -> Point(p.X, p.Y + 1)
      [] Direction = "West" -> Point(p.X - 1, p.Y)

\* an adjacency requirement is met at an origin: requirements of type None
\* always; a positive one when some in-bounds neighbour in the direction (all
\* four for Any) is occupied by a building of the type; a negative one when none is
RequirementMet(Req, Origin, Floor) ==
    LET Dirs == IF Req.Direction = "Any" THEN {"North", "East", "South", "West"}
                ELSE {Req.Direction}
        Match == \E d \in Dirs :
                    LET n == Neighbour(Origin, d) IN
                    /\ n \in Positions
                    /\ CellAt(n, Floor).bIsOccupied
                    /\ Buildings[CellAt(n, Floor).OccupyingObject].BuildingType
                           = Req.RequiredBuildingType
    IN  \/ Req.RequiredBuildingType = None
        \/ (Match # Req.bIsNegativeRequirement)

\* C4: for a non-null asset, CanPlaceBuilding is true exactly when every
\* footprint cell (for the origin resolved from the world location and the
\* given rotation) is inside the grid on the target floor, is unoccupied, has an
\* occupied cell below it when the target floor is above 0, and every adjacency
\* requirement of the asset is met; the target floor is the floor derived from
\* the world location when the floor argument is negative, the argument otherwise.
C4_ValidationRule ==
    \A a \in CheckArgs :
        LET Asset == AssetDef(a[1])
            Origin == WorldToGrid(a[2]).Pos
            Floor == ResolvedFloor(a[2], a[4])
            Cells == Range(GetOccupiedCellPositions(Asset.Footprint, Origin, a[3]))
            Reqs == Asset.AdjacencyRequirements
        IN  CanPlaceBuilding(a[1], a[2], a[3], a[4])
            <=> /\ Floor \in Floors
                /\ \A c \in Cells :
                      /\ c \in Positions
                      /\ ~CellAt(c, Floor).bIsOccupied
                      /\ (Floor > 0 => CellAt(c, Floor - 1).bIsOccupied)
                /\ \A i \in 1..Len(Reqs) : RequirementMet(Reqs[i], Origin, Floor)

\* CanPlaceBuilding has been called where a building with adjacency
\* requirements can be placed on an upper floor
C4_Witness ==
    /\ lastCall.op = "CanPlaceBuilding"
    /\ \E a \in CheckArgs :
          /\ Len(AssetDef(a[1]).AdjacencyRequirements) > 0
          /\ TargetFloor(a[2], a[4]) > 0
          /\ CanPlaceBuilding(a[1], a[2], a[3], a[4])

\* C5: for a 1x1 building without adjacency requirements and a target floor 1:
\* above an unoccupied floor-0 cell CanPlaceBuilding is false; once any building
\* occupies that floor-0 cell, PlaceBuilding of the building (one whose entity
\* can be created) on the free floor-1 cell at the same (x, y) succeeds.
C5_StructuralRule ==
    \A a \in CheckArgs :
        LET Asset == AssetDef(a[1])
            Origin == WorldToGrid(a[2]).Pos
        IN  (/\ Asset.Footprint = RectFootprint(1, 1)
             /\ Len(Asset.AdjacencyRequirements) = 0
             /\ 1 \in Floors
             /\ ResolvedFloor(a[2], a[4]) = 1)
            => /\ (~CellAt(Origin, 0).bIsOccupied
                      => ~CanPlaceBuilding(a[1], a[2], a[3], a[4]))
               /\ (/\ CellAt(Origin, 0).bIsOccupied
                   /\ ~CellAt(Origin, 1).bIsOccupied
                   /\ Asset.BuildingClass # None
                   /\ LiveBuildings # BuildingIds)
                  => LET Result == PlaceBuilding(a[1], a[2], a[3], a[4]) IN
                     /\ Result.ret # NullActor
                     /\ Result.GridData[1][Origin.Y][Origin.X].OccupyingObject = Result.ret

\* a 1x1 room has been placed on floor 1, above an occupied floor-0 cell
C5_Witness ==
    /\ lastCall.op = "PlaceBuilding"
    /\ lastCall.ret # NullActor
    /\ Buildings[lastCall.ret].BuildingAsset = "Room"
    /\ Buildings[lastCall.ret].FloorLevel = 1
    /\ CellAt(Buildings[lastCall.ret].GridOrigin, 0).bIsOccupied

\* the cells of the grid: floor and position
AllCells == { <<f, p>> : f \in Floors, p \in Positions }

\* the cells a placement validates: the footprint cells on the target floor
ValidatedCells(BuildingAsset, WorldLocation, Rotation, FloorLevel) ==
    { <<TargetFloor(WorldLocation, FloorLevel), c>> :
        c \in Range(GetOccupiedCellPositions(AssetDef(BuildingAsset).Footprint,
                                             WorldToGrid(WorldLocation).Pos, Rotation)) }

\* the cells whose occupancy data a store has different from the current one
CommittedCells(Grid) ==
    { c \in AllCells : OccupancyAt(Grid, c[2], c[1]) # Occupancy(CellAt(c[2], c[1])) }

\* C6: a successful PlaceBuilding creates exactly one new building, whose
\* stored origin, floor and rotation are the resolved origin, the target floor
\* and the given rotation; every footprint cell becomes occupied, refers to the
\* new building and has the footprint origin as its object origin; the occupancy
\* data of every other cell is unchanged.
C6_PlacementCommit ==
    \A a \in PlaceArgs :
        WithinBound(a[1], a[2], a[3], a[4]) =>
            LET Result == PlaceBuilding(a[1], a[2], a[3], a[4])
                Origin == WorldToGrid(a[2]).Pos
                Floor == TargetFloor(a[2], a[4])
                Placed == ValidatedCells(a[1], a[2], a[3], a[4])
            IN  Result.ret # NullActor =>
                    /\ Result.ret \notin LiveBuildings
                    /\ DOMAIN Result.Buildings = LiveBuildings \cup {Result.ret}
                    /\ \A b \in LiveBuildings : Result.Buildings[b] = Buildings[b]
                    /\ Result.Buildings[Result.ret].GridOrigin = Origin
                    /\ Result.Buildings[Result.ret].FloorLevel = Floor
                    /\ Result.Buildings[Result.ret].GridRotation = a[3]
                    /\ Placed \subseteq AllCells
                    /\ \A c \in AllCells :
                          OccupancyAt(Result.GridData, c[2], c[1]) =
                              IF c \in Placed
                              THEN [bIsOccupied |-> TRUE, OccupyingObject |-> Result.ret,
                                    ObjectOrigin |-> Origin]
                              ELSE Occupancy(CellAt(c[2], c[1]))

\* a two-cell suite has been placed next to an existing building
C6_Witness ==
    /\ lastCall.op = "PlaceBuilding"
    /\ lastCall.ret # NullActor
    /\ Buildings[lastCall.ret].BuildingAsset = "Suite"
    /\ Cardinality({ c \in AllCells : CellAt(c[2], c[1]).OccupyingObject = lastCall.ret }) = 2
    /\ LiveBuildings # {lastCall.ret}

\* C7: whenever PlaceBuilding returns no building (validation failed, the asset
\* is null or the entity could not be created), the occupancy data of every
\* cell is unchanged and no building has been added.
C7_FailedPlacementChangesNothing ==
    \A a \in PlaceArgs :
        WithinBound(a[1], a[2], a[3], a[4]) =>
            LET Result == PlaceBuilding(a[1], a[2], a[3], a[4]) IN
            Result.ret = NullActor =>
                /\ CommittedCells(Result.GridData) = {}
                /\ Result.Buildings = Buildings

\* a PlaceBuilding has failed on a grid that holds a building
C7_Witness ==
    /\ lastCall.op = "PlaceBuilding" /\ lastCall.ret = NullActor
    /\ LiveBuildings # {}
    /\ \E c \in AllCells : CellAt(c[2], c[1]).bIsOccupied

\* C8 as stated: PlaceBuilding returns a building exactly when CanPlaceBuilding
\* with the same arguments is true, and the cells it commits are the cells
\* validation examined.
C8_PlacesExactlyWhenCanPlace ==
    \A a \in PlaceArgs :
        WithinBound(a[1], a[2], a[3], a[4]) =>
            LET Result == PlaceBuilding(a[1], a[2], a[3], a[4]) IN
            /\ (Result.ret # NullActor) <=> CanPlaceBuilding(a[1], a[2], a[3], a[4])
            /\ Result.ret # NullActor
                  => CommittedCells(Result.GridData) = ValidatedCells(a[1], a[2], a[3], a[4])

\* C8: PlaceBuilding returns a building exactly when CanPlaceBuilding with the
\* same arguments is true and the entity can be created, for which the asset
\* must name a building class; the cells it commits are the cells validation
\* examined.
C8_PlacesWhenCanPlaceAndSpawned ==
    \A a \in PlaceArgs :
        WithinBound(a[1], a[2], a[3], a[4]) =>
            LET Result == PlaceBuilding(a[1], a[2], a[3], a[4]) IN
            /\ (Result.ret # NullActor)
                  <=> (/\ CanPlaceBuilding(a[1], a[2], a[3], a[4])
                       /\ AssetDef(a[1]).BuildingClass # None)
            /\ Result.ret # NullActor
                  => CommittedCells(Result.GridData) = ValidatedCells(a[1], a[2], a[3], a[4])

\* a garden, whose placement depends on an adjacent room, has been placed
C8_Witness ==
    /\ lastCall.op = "PlaceBuilding"
    /\ lastCall.ret # NullActor
    /\ Buildings[lastCall.ret].BuildingAsset = "Garden"

\* C9: RemoveBuilding on any occupied cell returns true, vacates every cell of
\* the building occupying it (unoccupied, no occupying object, object origin
\* the cell's own position), discards that building and leaves the occupancy
\* data of the cells of other buildings, and those buildings, unchanged.
C9_RemoveVacatesBuilding ==
    \A c \in AllCells :
        CellAt(c[2], c[1]).bIsOccupied =>
            LET Building == CellAt(c[2], c[1]).OccupyingObject
                Result == RemoveBuilding(c[2], c[1])
            IN  /\ Result.ret = TRUE
                /\ DOMAIN Result.Buildings = LiveBuildings \ {Building}
                /\ \A b \in DOMAIN Result.Buildings : Result.Buildings[b] = Buildings[b]
                /\ \A d \in AllCells :
                      OccupancyAt(Result.GridData, d[2], d[1]) =
                          IF CellAt(d[2], d[1]).OccupyingObject = Building
                          THEN [bIsOccupied |-> FALSE, OccupyingObject |-> NullActor,
                                ObjectOrigin |-> d[2]]
                          ELSE Occupancy(CellAt(d[2], d[1]))

\* a building has been removed and a building of more than one cell is left
C9_Witness ==
    /\ lastCall.op = "RemoveBuilding" /\ lastCall.ret = TRUE
    /\ \E c \in AllCells :
          /\ CellAt(c[2], c[1]).bIsOccupied
          /\ CellAt(c[2], c[1]).ObjectOrigin # c[2]

\* the positions and floors the removal properties range over
CheckPositions == { Point(x, y) : x \in -1..3, y \in -1..3 }

\* RemoveBuilding on a cell outside the grid or on an unoccupied cell returns
\* false and leaves the store and the buildings as they are
RemoveNothing ==
    \A p \in CheckPositions : \A f \in CheckFloors :
        (~IsValidGridPosition(p, f) \/ ~CellAt(p, f).bIsOccupied) =>
            /\ RemoveBuilding(p, f).ret = FALSE
            /\ RemoveBuilding(p, f).GridData = GridData
            /\ RemoveBuilding(p, f).Buildings = Buildings

\* after a successful RemoveBuilding, RemoveBuilding on each cell it vacated
\* returns false and leaves the store and the buildings as they are
SecondRemoval ==
    (lastCall'.op = "RemoveBuilding" /\ lastCall'.ret = TRUE) =>
        \A c \in AllCells :
            (CellAt(c[2], c[1]).bIsOccupied /\ ~CellAt(c[2], c[1])'.bIsOccupied) =>
                /\ RemoveBuilding(c[2], c[1])'.ret = FALSE
                /\ RemoveBuilding(c[2], c[1])'.GridData = GridData'
                /\ RemoveBuilding(c[2], c[1])'.Buildings = Buildings'

\* C10: RemoveBuilding on an out-of-bounds or unoccupied cell returns false and
\* leaves the grid unchanged, in particular a second RemoveBuilding on a
\* position a successful RemoveBuilding has just vacated.
C10_RemoveNothing == []RemoveNothing /\ [][SecondRemoval]_vars

\* a RemoveBuilding has failed on a grid that holds a building
C10_Witness ==
    /\ lastCall.op = "RemoveBuilding" /\ lastCall.ret = FALSE
    /\ LiveBuildings # {}

\* C11: in every reachable state, for every occupied cell c, the cell at
\* c.ObjectOrigin on the same floor is occupied and has the same occupying
\* object as c.
C11_OriginResolves ==
    \A c \in AllCells :
        CellAt(c[2], c[1]).bIsOccupied =>
            LET Origin == CellAt(c[2], c[1]).ObjectOrigin IN
            /\ Origin \in Positions
            /\ CellAt(Origin, c[1]).bIsOccupied
            /\ CellAt(Origin, c[1]).OccupyingObject = CellAt(c[2], c[1]).OccupyingObject

\* C12: for every footprint, origin and integer rotation r, negative ones
\* included, GetOccupiedCellPositions(origin, r) equals
\* GetOccupiedCellPositions(origin, r + 4).
C12_RotationClosure ==
    lastCall.op = "GetOccupiedCellPositions" =>
        lastCall.ret = GetOccupiedCellPositions(lastCall.Footprint, lastCall.Origin,
                                                lastCall.RotationQuarters + 4)

\* what the code does: the closure holds from rotation 0 on and at -4
C12_ClosureFromZero ==
    (lastCall.op = "GetOccupiedCellPositions" /\ lastCall.RotationQuarters \in {-4} \cup 0..7) =>
        lastCall.ret = GetOccupiedCellPositions(lastCall.Footprint, lastCall.Origin,
                                                lastCall.RotationQuarters + 4)

\* the arguments the adjacency properties range over: every asset at the
\* neighbouring cells, on the detected and on the given ground floor
NeighbourCheckArgs ==
    { a \in (AssetNames \cup {"Villa"}) \X NeighbourLocations \X {-1, 0, 1, 3} \X {-1, 0} :
        Len(AssetDef(a[1]).Footprint.OccupiedCells) = 0
        /\ AssetDef(a[1]).Footprint.Size = Point(1, 1) => a[3] = 0 }

\* every footprint cell of a placement is in the grid on the floor, unoccupied
\* and, above the ground floor, over an occupied cell
FootprintFree(Footprint, Origin, Rotation, Floor) ==
    /\ Floor \in Floors
    /\ \A c \in Range(GetOccupiedCellPositions(Footprint, Origin, Rotation)) :
          /\ c \in Positions
          /\ ~CellAt(c, Floor).bIsOccupied
          /\ (Floor > 0 => CellAt(c, Floor - 1).bIsOccupied)

\* a building of the type occupies the position on the floor
OccupiedByType(p, Floor, Type) ==
    /\ p \in Positions
    /\ CellAt(p, Floor).bIsOccupied
    /\ Buildings[CellAt(p, Floor).OccupyingObject].BuildingType = Type

\* C13: with a requirement (TypeX, North, negative), CanPlaceBuilding is false
\* when a TypeX building occupies the cell (origin.x, origin.y - 1) on the
\* target floor, and, all other checks passing, true when that neighbour is
\* empty, out of bounds or occupied by a building of another type.
C13_NegativeNorthRule ==
    \A a \in NeighbourCheckArgs :
        LET Asset == AssetDef(a[1])
            Reqs == Asset.AdjacencyRequirements
            Origin == WorldToGrid(a[2]).Pos
            Floor == ResolvedFloor(a[2], a[4])
            North == Point(Origin.X, Origin.Y - 1)
        IN  \A i \in 1..Len(Reqs) :
                (/\ Reqs[i].RequiredBuildingType # None
                 /\ Reqs[i].Direction = "North"
                 /\ Reqs[i].bIsNegativeRequirement)
                => LET TypeXNorth == OccupiedByType(North, Floor, Reqs[i].RequiredBuildingType)
                       OtherChecks ==
                           /\ FootprintFree(Asset.Footprint, Origin, a[3], Floor)
                           /\ \A j \in 1..Len(Reqs) :
                                 j # i => RequirementMet(Reqs[j], Origin, Floor)
                   IN  /\ TypeXNorth => ~CanPlaceBuilding(a[1], a[2], a[3], a[4])
                       /\ (~TypeXNorth /\ OtherChecks)
                             => CanPlaceBuilding(a[1], a[2], a[3], a[4])

\* CanPlaceBuilding has refused a suite at (1,1) whose cells are free, with a
\* standard room to the north
C13_Witness ==
    /\ lastCall.op = "CanPlaceBuilding" /\ lastCall.ret = FALSE
    /\ OccupiedByType(Point(1, 0), 0, "StandardRoom")
    /\ \A a \in NeighbourLookArgs :
          FootprintFree(AssetDef(a[1]).Footprint, Point(1, 1), a[3], 0)

\* CanPlaceBuilding has accepted a suite at (1,1) with a building of another
\* type to the north
C13_WitnessOtherType ==
    /\ lastCall.op = "CanPlaceBuilding" /\ lastCall.ret = TRUE
    /\ OccupiedByType(Point(1, 0), 0, "Villa")

\* the requirements the adjacency evaluation is tried with: every direction
\* and flag for the type None and two building types; a few of them in pairs
RequirementArgs ==
    { Requirement(t, d, n) : t \in {None, "StandardRoom", "Villa"},
                             d \in {"North", "East", "South", "West", "Any"},
                             n \in BOOLEAN }
PairedRequirementArgs ==
    { Requirement(None, "North", TRUE), Requirement("StandardRoom", "Any", FALSE),
      Requirement("Villa", "West", FALSE), Requirement("StandardRoom", "North", TRUE) }
NeighbourOrigins == { Point(0, 0), Point(1, 0), Point(1, 1) }

\* some in-bounds neighbour of the origin in the direction (all four for Any)
\* is occupied by a building of the type
NeighbourOfType(Origin, Floor, Direction, Type) ==
    \E d \in (IF Direction = "Any" THEN {"North", "East", "South", "West"} ELSE {Direction}) :
        OccupiedByType(Neighbour(Origin, d), Floor, Type)

\* C14: a positive requirement is satisfied exactly when at least one in-bounds
\* neighbour of the candidate origin in the required direction (all four for
\* Any) on the target floor is occupied by a building of exactly the required
\* type; an empty requirement list passes; a requirement of type None is
\* skipped whatever its direction and negative flag; the evaluation, and with
\* it the placement, fails as soon as one requirement that is not skipped is
\* unmet.
C14_AdjacencyEvaluation ==
    /\ \A Origin \in NeighbourOrigins :
          /\ CheckAdjacencyRequirements(<<>>, Origin, 0)
          /\ \A r \in RequirementArgs :
                CheckAdjacencyRequirements(<<r>>, Origin, 0)
                <=> \/ r.RequiredBuildingType = None
                    \/ ( NeighbourOfType(Origin, 0, r.Direction, r.RequiredBuildingType)
                         # r.bIsNegativeRequirement )
          /\ \A r1 \in PairedRequirementArgs : \A r2 \in PairedRequirementArgs :
                CheckAdjacencyRequirements(<<r1, r2>>, Origin, 0)
                <=> /\ CheckAdjacencyRequirements(<<r1>>, Origin, 0)
                    /\ CheckAdjacencyRequirements(<<r2>>, Origin, 0)
    /\ \A a \in NeighbourCheckArgs :
          LET Reqs == AssetDef(a[1]).AdjacencyRequirements
              Origin == WorldToGrid(a[2]).Pos
              Floor == ResolvedFloor(a[2], a[4])
          IN  (\E i \in 1..Len(Reqs) :
                  /\ Reqs[i].RequiredBuildingType # None
                  /\ ( NeighbourOfType(Origin, Floor, Reqs[i].Direction,
                                       Reqs[i].RequiredBuildingType)
                       = Reqs[i].bIsNegativeRequirement ))
              => ~CanPlaceBuilding(a[1], a[2], a[3], a[4])

\* a garden, which needs a standard room next to its origin, has been placed
\* with a room as its only neighbour of that type
C14_Witness ==
    /\ lastCall.op = "PlaceBuilding"
    /\ lastCall.ret # NullActor
    /\ Buildings[lastCall.ret].BuildingAsset = "Garden"
    /\ Cardinality({ d \in {"North", "East", "South", "West"} :
                        NeighbourOfType(Buildings[lastCall.ret].GridOrigin, 0, d,
                                        "StandardRoom") }) = 1

\* the arguments the preview properties range over
PreviewArgs ==
    { a \in {"Room", "Suite", "Garden", None} \X WorldLocations \X RotationArgs \X {-1, 1} :
        /\ (a[4] < 0 \/ a[2].Z = 0)
        /\ (a[1] \in {None, "Room"} => a[3] = 0) }

\* a preview with any arguments leaves the occupancy data of every cell as it is
PreviewKeepsOccupancy ==
    \A a \in PreviewArgs : \A c \in AllCells :
        OccupancyAt(UpdatePlacementPreview(a[1], a[2], a[3], a[4]), c[2], c[1])
            = Occupancy(CellAt(c[2], c[1]))

\* a CanPlaceBuilding or UpdatePlacementPreview call leaves the occupancy data
\* of every cell and the buildings as they are
LookingKeepsOccupancy ==
    lastCall'.op \in {"CanPlaceBuilding", "UpdatePlacementPreview"} =>
        /\ Buildings' = Buildings
        /\ \A c \in AllCells :
              Occupancy(CellAt(c[2], c[1]))' = Occupancy(CellAt(c[2], c[1]))

\* C15: CanPlaceBuilding and UpdatePlacementPreview never change the occupied
\* flag, the occupying object or the object origin of any cell and never create
\* or destroy a building, whatever their arguments and result.
C15_LookingChangesNoOccupancy == []PreviewKeepsOccupancy /\ [][LookingKeepsOccupancy]_vars

\* a preview has marked cells on a grid that holds a building
C15_Witness ==
    /\ lastCall.op = "UpdatePlacementPreview"
    /\ LiveBuildings # {}
    /\ \E c \in AllCells : CellAt(c[2], c[1]).bIsOccupied
    /\ \E c \in AllCells : CellAt(c[2], c[1]).VisualState # "Normal"

\* C16: after UpdatePlacementPreview with a non-null asset, the cells whose
\* visual state is not Normal are exactly the in-bounds footprint cells on the
\* target floor; they are all Valid when CanPlaceBuilding with the same
\* arguments is true and all Invalid otherwise; marks of an earlier preview, on
\* any floor, are gone.
C16_PreviewMarks ==
    \A a \in PreviewArgs :
        a[1] # None =>
            LET Grid == UpdatePlacementPreview(a[1], a[2], a[3], a[4])
                Origin == WorldToGrid(a[2]).Pos
                Floor == ResolvedFloor(a[2], a[4])
                Cells == Range(GetOccupiedCellPositions(AssetDef(a[1]).Footprint,
                                                        Origin, a[3]))
                Marked == { c \in AllCells : Grid[c[1]][c[2].Y][c[2].X].VisualState # "Normal" }
            IN  /\ Marked = { c \in AllCells : c[1] = Floor /\ c[2] \in Cells }
                /\ \A c \in Marked :
                      Grid[c[1]][c[2].Y][c[2].X].VisualState =
                          IF CanPlaceBuilding(a[1], a[2], a[3], a[4]) THEN "Valid"
                          ELSE "Invalid"

\* a preview has marked cells Invalid where another preview, which would mark
\* cells on the other floor, can follow
C16_Witness ==
    /\ lastCall.op = "UpdatePlacementPreview"
    /\ \E c \in AllCells : CellAt(c[2], c[1]).VisualState = "Invalid"
    /\ \E c \in AllCells : \E d \in AllCells :
          /\ CellAt(c[2], c[1]).VisualState # "Normal"
          /\ d[1] # c[1]

\* the index <<floor, row, column>> is inside a store of the given dimensions
InStore(Index, SizeX, SizeY, FloorCount) ==
    /\ Index[1] \in 0..(FloorCount - 1)
    /\ Index[2] \in 0..(SizeY - 1)
    /\ Index[3] \in 0..(SizeX - 1)

\* the index is inside the store as it is now
InGrid(Index) == InStore(Index, GridSizeX, GridSizeY, MaxFloors)

\* C17: no sequence of public calls (initializeGrid, re-initialization with
\* smaller dimensions included, setActiveFloorLevel, setGridVisualizationEnabled,
\* canPlaceBuilding, placeBuilding, removeBuilding, updatePlacementPreview,
\* getCellData) reaches a floor, row or cell lookup with an index outside the
\* initialized dimensions: in every reachable state, every lookup of every
\* call is inside the store the call looks into.
C17_LookupsInsideGrid ==
    /\ \A cfg \in GridConfigs :
          \A l \in InitializeGridLookups(cfg[1], cfg[2], cfg[3]) :
              InStore(l, cfg[1], cfg[2], cfg[3])
    /\ \A f \in ActiveFloorArgs : \A l \in SetActiveFloorLevelLookups(f) : InGrid(l)
    /\ \A b \in BOOLEAN : \A l \in SetGridVisualizationEnabledLookups(b) : InGrid(l)
    /\ \A p \in CellQueryPositions, f \in CellQueryFloors :
          \A l \in GetCellDataLookups(p, f) : InGrid(l)
    /\ \A a \in PreviewArgs :
          /\ \A l \in CanPlaceBuildingLookups(a[1], a[2], a[3], a[4]) : InGrid(l)
          /\ \A l \in PlaceBuildingLookups(a[1], a[2], a[3], a[4]) : InGrid(l)
          /\ \A l \in UpdatePlacementPreviewLookups(a[1], a[2], a[3], a[4]) : InGrid(l)
    /\ \A p \in RemovePositions, f \in RemoveFloors :
          \A l \in RemoveBuildingLookups(p, f) : InGrid(l)

\* the integer floor of Numerator / Denominator (Denominator > 0), from its
\* defining inequalities
FloorOfQuotient(Numerator, Denominator) ==
    CHOOSE q \in -2001..2001 :
        q * Denominator <= Numerator /\ Numerator < (q + 1) * Denominator

\* v limited to lo..hi (lo <= hi)
Limited(v, lo, hi) ==
    CHOOSE r \in lo..hi : \A s \in lo..hi : (r - v) * (r - v) <= (s - v) * (s - v)

\* C18: for every world position, WorldToGrid returns
\* floor = clamp(floor(worldZ / floorHeight), 0, maxFloors - 1) and
\* x, y = clamp(floor((world - origin + cellSize / 2) / cellSize), 0, size - 1);
\* on a grid with sizes and maxFloors >= 1 the result satisfies
\* IsValidGridPosition, also far outside the grid.
C18_WorldToGridClamps ==
    lastCall.op = "WorldToGrid" =>
        LET W == lastCall.WorldPosition
            R == lastCall.ret
        IN  /\ R.Floor = Limited(FloorOfQuotient(W.Z, FloorHeight), 0, MaxFloors - 1)
            /\ R.Pos.X = Limited(FloorOfQuotient(2 * (W.X - ActorLocation.X) + CellSize,
                                                 2 * CellSize), 0, GridSizeX - 1)
            /\ R.Pos.Y = Limited(FloorOfQuotient(2 * (W.Y - ActorLocation.Y) + CellSize,
                                                 2 * CellSize), 0, GridSizeY - 1)
            /\ IsValidGridPosition(R.Pos, R.Floor)

\* a position far beyond the last column and below the ground floor has been
\* converted to the last column of the ground floor
C18_Witness ==
    /\ lastCall.op = "WorldToGrid"
    /\ lastCall.WorldPosition.X > 10 * GridSizeX * CellSize
    /\ lastCall.WorldPosition.Z < 0
    /\ lastCall.ret.Pos.X = GridSizeX - 1
    /\ lastCall.ret.Floor = 0

\* the rotation R_r of the plane by r quarter turns, r in 0..3
QuarterTurn(r, p) ==
    IF r = 0 THEN p
    ELSE IF r = 1 THEN [X |-> 0 - p.Y, Y |-> p.X]
    ELSE IF r = 2 THEN [X |-> 0 - p.X, Y |-> 0 - p.Y]
    ELSE [X |-> p.Y, Y |-> 0 - p.X]

\* p translated by Origin
Translated(Origin, p) == [X |-> Origin.X + p.X, Y |-> Origin.Y + p.Y]

\* C19: GetOccupiedCellPositions for rotation r in 0..3: with a non-empty
\* offset list it returns origin + R_r(offset) for each offset (R_0 identity,
\* R_1(x,y) = (-y,x), R_2(x,y) = (-x,-y), R_3(x,y) = (y,-x)); with an empty list
\* it enumerates the local points of a rectangle of size (w,h) for even r and
\* (h,w) for odd r, applies R_r to each and translates by origin; the size is
\* ignored whenever the list is non-empty.
C19_OccupiedCellPositions ==
    (lastCall.op = "GetOccupiedCellPositions" /\ lastCall.RotationQuarters \in 0..3) =>
        LET F == lastCall.Footprint
            r == lastCall.RotationQuarters
            w == IF r \in {0, 2} THEN F.Size.X ELSE F.Size.Y
            h == IF r \in {0, 2} THEN F.Size.Y ELSE F.Size.X
        IN  IF F.OccupiedCells # << >>
            THEN /\ Len(lastCall.ret) = Len(F.OccupiedCells)
                 /\ \A i \in 1..Len(F.OccupiedCells) :
                       lastCall.ret[i] = Translated(lastCall.Origin,
                                                    QuarterTurn(r, F.OccupiedCells[i]))
                 /\ \A Size \in { Point(1, 1), Point(2, 3), Point(3, 2) } :
                       GetOccupiedCellPositions([F EXCEPT !.Size = Size],
                                                lastCall.Origin, r) = lastCall.ret
            ELSE /\ Len(lastCall.ret) = w * h
                 /\ Range(lastCall.ret) =
                       { Translated(lastCall.Origin, QuarterTurn(r, [X |-> x, Y |-> y])) :
                           x \in 0..(w - 1), y \in 0..(h - 1) }

\* the cells of a 2 x 3 rectangle after one quarter turn have been computed
C19_Witness ==
    /\ lastCall.op = "GetOccupiedCellPositions"
    /\ lastCall.RotationQuarters = 1
    /\ lastCall.Footprint.OccupiedCells = << >>
    /\ lastCall.Footprint.Size = Point(2, 3)
    /\ Len(lastCall.ret) = 6

\* the store has exactly FloorCount x SizeY x SizeX cells, all as initialized
FreshStore(Grid, SizeX, SizeY, FloorCount) ==
    /\ DOMAIN Grid = 0..(FloorCount - 1)
    /\ \A f \in DOMAIN Grid :
          /\ DOMAIN Grid[f] = 0..(SizeY - 1)
          /\ \A y \in DOMAIN Grid[f] :
                /\ DOMAIN Grid[f][y] = 0..(SizeX - 1)
                /\ \A x \in DOMAIN Grid[f][y] :
                      LET Cell == Grid[f][y][x] IN
                      /\ ~Cell.bIsOccupied
                      /\ Cell.OccupyingObject = NullActor
                      /\ Cell.ObjectOrigin = [X |-> x, Y |-> y]
                      /\ Cell.bIsWalkable
                      /\ Cell.VisualState = "Normal"
                      /\ Cell.bHasWaterConnection <=> (f = 0)
                      /\ Cell.bHasElectricalConnection <=> (f = 0)

\* an InitializeGrid call leaves a fresh store of the dimensions it was given
InitializeGridGivesFreshStore ==
    \A cfg \in GridConfigs :
        (/\ lastCall'.op = "InitializeGrid"
         /\ InitializeGrid(cfg[1], cfg[2], DefaultCellSize, cfg[3])) =>
            /\ FreshStore(GridData', cfg[1], cfg[2], cfg[3])
            /\ GridSizeX' = cfg[1] /\ GridSizeY' = cfg[2] /\ MaxFloors' = cfg[3]

\* C20: after InitializeGrid(sizeX, sizeY, cellSize, maxFloors), also when it
\* is called again on a grid that holds buildings, the store has exactly
\* maxFloors x sizeY x sizeX cells and every cell is unoccupied with no
\* occupant, objectOrigin equal to its own position, walkable, visual state
\* Normal, and water and electrical connections true exactly on floor 0.
C20_InitializeGridResets == [][InitializeGridGivesFreshStore]_vars

\* the grid has been initialized again while buildings were placed on it
C20_Witness ==
    /\ lastCall.op = "InitializeGrid"
    /\ LiveBuildings # {}
    /\ FreshStore(GridData, GridSizeX, GridSizeY, MaxFloors)

\* a SetActiveFloorLevel call leaves the active floor on a floor of the grid
\* and the occupancy data and the buildings as they are
SetActiveFloorLevelStep ==
    lastCall'.op = "SetActiveFloorLevel" =>
        /\ 0 <= ActiveFloorLevel' /\ ActiveFloorLevel' <= MaxFloors' - 1
        /\ Buildings' = Buildings
        /\ \A c \in AllCells :
              Occupancy(CellAt(c[2], c[1]))' = Occupancy(CellAt(c[2], c[1]))

\* C21: SetActiveFloorLevel clamps its argument: after any sequence of
\* SetActiveFloorLevel calls with arbitrary integers on a grid with
\* MaxFloors >= 1 the active floor is within 0..MaxFloors-1, and the call
\* changes no cell's occupancy data.
C21_ActiveFloorClamped == [][SetActiveFloorLevelStep]_vars

\* the first floor has been made the active floor of a grid that holds a building
C21_Witness ==
    /\ lastCall.op = "SetActiveFloorLevel"
    /\ ActiveFloorLevel = 1
    /\ MaxFloors = 2
    /\ \E c \in AllCells : CellAt(c[2], c[1]).bIsOccupied

\* calls without an asset
NullAssetArgs == {None} \X WorldLocations \X CheckRotations \X CheckFloors

\* C22: with a null asset CanPlaceBuilding returns false, PlaceBuilding returns
\* no building and UpdatePlacementPreview only resets all visual states to
\* Normal; none of them changes occupancy.
C22_NullAsset ==
    \A a \in NullAssetArgs :
        /\ ~CanPlaceBuilding(a[1], a[2], a[3], a[4])
        /\ PlaceBuilding(a[1], a[2], a[3], a[4]).ret = NullActor
        /\ PlaceBuilding(a[1], a[2], a[3], a[4]).GridData = GridData
        /\ PlaceBuilding(a[1], a[2], a[3], a[4]).Buildings = Buildings
        /\ LET Grid == UpdatePlacementPreview(a[1], a[2], a[3], a[4]) IN
           \A c \in AllCells :
               Grid[c[1]][c[2].Y][c[2].X] =
                   [CellAt(c[2], c[1]) EXCEPT !.VisualState = "Normal"]

\* a preview without an asset has cleared the marks on a grid that holds a
\* building (a preview with an asset leaves marked cells)
C22_Witness ==
    /\ lastCall.op = "UpdatePlacementPreview"
    /\ \A c \in AllCells : CellAt(c[2], c[1]).VisualState = "Normal"
    /\ \E c \in AllCells : CellAt(c[2], c[1]).bIsOccupied

\* the buildings that exist before and after a step
Surviving == { b \in BuildingIds : b \in DOMAIN Buildings /\ b \in DOMAIN Buildings' }

\* the state of every building stays in {0, 1}, never goes from 1 to 0, and
\* changes in OnDailyUpdate calls only
StateMonotonicStep ==
    \A b \in Surviving :
        /\ Buildings'[b].BuildingState \in {0, 1}
        /\ Buildings[b].BuildingState = 1 => Buildings'[b].BuildingState = 1
        /\ Buildings'[b].BuildingState # Buildings[b].BuildingState
              => lastCall'.op = "OnDailyUpdate"

\* C23 as stated: after any sequence of entity operations (InitializeFromAsset,
\* staff and guest operations, OnDailyUpdate) a building that has reached
\* Operational(1) never returns to Construction(0), the state only takes the
\* values 0 and 1, and the only operation that changes it is OnDailyUpdate.
C23_StateMonotonic == [][StateMonotonicStep]_vars

\* the state of every building stays in {0, 1}; it goes from 0 to 1 in
\* OnDailyUpdate calls only and from 1 to 0 in InitializeFromAsset calls only
StateStep ==
    \A b \in Surviving :
        /\ Buildings'[b].BuildingState \in {0, 1}
        /\ (Buildings[b].BuildingState = 0 /\ Buildings'[b].BuildingState # 0)
              => lastCall'.op = "OnDailyUpdate"
        /\ (Buildings[b].BuildingState = 1 /\ Buildings'[b].BuildingState # 1)
              => (/\ lastCall'.op = "InitializeFromAsset"
                  /\ Buildings'[b].BuildingAsset # None
                  /\ Buildings'[b].AssignedStaff = << >>
                  /\ Buildings'[b].CurrentGuests = << >>)

\* C23 amended: the state of a building only takes the values 0 and 1; only
\* OnDailyUpdate moves it from Construction(0) to Operational(1), and a
\* building that has reached Operational returns to Construction only when
\* InitializeFromAsset binds it to an asset again (which also clears its staff
\* and guests); the staff and guest operations never change the state.
C23_StateChanges == [][StateStep]_vars

\* an operational building with staff has taken a guest
C23_Witness ==
    /\ lastCall.op = "RegisterGuest"
    /\ lastCall.ret
    /\ \E b \in LiveBuildings :
          /\ Buildings[b].BuildingState = 1
          /\ Buildings[b].AssignedStaff # << >>
          /\ Buildings[b].CurrentGuests # << >>

\* the building a successful PlaceBuilding returns is in Construction, at
\* efficiency 100, without staff and guests
PlacedBuildingIsNew ==
    \A a \in EntityPlaceArgs :
        LET Result == PlaceBuilding(a[1], a[2], a[3], a[4]) IN
        (LiveBuildings # BuildingIds /\ Result.ret # NullActor) =>
            /\ Result.Buildings[Result.ret].BuildingState = 0
            /\ Result.Buildings[Result.ret].OperationalEfficiency = 100
            /\ Result.Buildings[Result.ret].AssignedStaff = << >>
            /\ Result.Buildings[Result.ret].CurrentGuests = << >>

\* an OnDailyUpdate call leaves its building Operational, whatever its state
\* and staff were, and the other buildings as they are
DailyUpdateStep ==
    lastCall'.op = "OnDailyUpdate" =>
        \E b \in Surviving :
            /\ Buildings'[b].BuildingState = 1
            /\ \A c \in Surviving \ {b} : Buildings'[c] = Buildings[c]

\* C24: a building returned by PlaceBuilding is in Construction(0) with
\* efficiency 100 and empty staff and guest sets; its first OnDailyUpdate moves
\* it to Operational(1) unconditionally, regardless of staff, and every later
\* OnDailyUpdate leaves the state at Operational.
C24_PlacedThenOperational == []PlacedBuildingIsNew /\ [][DailyUpdateStep]_vars

\* a placed room, which needs two cleaners, has become Operational without staff
C24_Witness ==
    /\ lastCall.op = "OnDailyUpdate"
    /\ \E b \in LiveBuildings :
          /\ Buildings[b].BuildingAsset = "Room"
          /\ Buildings[b].BuildingState = 1
          /\ Buildings[b].AssignedStaff = << >>
          /\ \E c \in AllCells : CellAt(c[2], c[1]).OccupyingObject = b

\* the required counts of the staff entries of the asset B is bound to
RequiredCounts(B) ==
    IF B.BuildingAsset = None THEN {}
    ELSE { AssetDef(B.BuildingAsset).RequiredStaffTypes[i].Value :
             i \in 1..Len(AssetDef(B.BuildingAsset).RequiredStaffTypes) }

\* the number of different staff members of B
StaffCount(B) == Cardinality({ B.AssignedStaff[i] : i \in 1..Len(B.AssignedStaff) })

\* the efficiency of B is 100 x the minimum over the staff entries of
\* min(1, assigned / required), and 100 without entries
EfficiencyIsStaffRatio(B) ==
    LET Ratio100(r) == IF StaffCount(B) >= r THEN 100 * r ELSE 100 * StaffCount(B)
    IN  IF RequiredCounts(B) = {} THEN B.OperationalEfficiency = 100
        ELSE /\ \A r \in RequiredCounts(B) : B.OperationalEfficiency * r <= Ratio100(r)
             /\ \E r \in RequiredCounts(B) : B.OperationalEfficiency * r = Ratio100(r)

\* C25: immediately after every successful AssignStaffMember, every successful
\* RemoveStaffMember and every OnDailyUpdate, the efficiency is 100 x the
\* minimum over all required-staff entries of min(1, assigned / required), and
\* 100 when there are no entries; with one entry requiring 2 staff: assign one
\* -> 50, assign a second -> 100, remove one -> 50.
C25_Efficiency ==
    \A b \in LiveBuildings :
        /\ EfficiencyIsStaffRatio(OnDailyUpdate(Buildings[b]))
        /\ \A StaffMember \in StaffArgs :
              /\ AssignStaffMember(Buildings[b], StaffMember).ret
                    => EfficiencyIsStaffRatio(AssignStaffMember(Buildings[b], StaffMember).Building)
              /\ RemoveStaffMember(Buildings[b], StaffMember).ret
                    => EfficiencyIsStaffRatio(RemoveStaffMember(Buildings[b], StaffMember).Building)
        /\ (RequiredCounts(Buildings[b]) = {2} /\ Buildings[b].AssignedStaff = << >>) =>
              LET One == AssignStaffMember(Buildings[b], 11).Building
                  Two == AssignStaffMember(One, 12).Building
                  Back == RemoveStaffMember(Two, 11).Building
              IN  /\ One.OperationalEfficiency = 50
                  /\ Two.OperationalEfficiency = 100
                  /\ Back.OperationalEfficiency = 50

\* a suite (two therapists and a cleaner needed) is back at 50 after one of
\* its two staff members was removed
C25_Witness ==
    /\ lastCall.op = "RemoveStaffMember"
    /\ lastCall.ret
    /\ \E b \in LiveBuildings :
          /\ Buildings[b].BuildingAsset = "Suite"
          /\ Len(Buildings[b].AssignedStaff) = 1
          /\ Buildings[b].OperationalEfficiency = 50

\* the staff members of B
StaffOf(B) == { B.AssignedStaff[i] : i \in 1..Len(B.AssignedStaff) }

\* C26: staff operations are idempotent set operations: assigning a member who
\* is already assigned returns true and leaves the staff set and the efficiency
\* unchanged (no duplicate entry); removing a non-member or a null reference
\* returns false and leaves the staff set and the efficiency unchanged;
\* assigning a null reference returns false.
C26_StaffIdempotent ==
    \A b \in LiveBuildings :
        /\ Cardinality(StaffOf(Buildings[b])) = Len(Buildings[b].AssignedStaff)
        /\ \A StaffMember \in StaffArgs :
              LET Assigned == AssignStaffMember(Buildings[b], StaffMember)
                  Removed == RemoveStaffMember(Buildings[b], StaffMember)
              IN  /\ StaffMember \in StaffOf(Buildings[b]) =>
                        /\ Assigned.ret
                        /\ Assigned.Building.AssignedStaff = Buildings[b].AssignedStaff
                        /\ Assigned.Building.OperationalEfficiency
                              = Buildings[b].OperationalEfficiency
                  /\ StaffMember \notin StaffOf(Buildings[b]) =>
                        /\ ~Removed.ret
                        /\ Removed.Building.AssignedStaff = Buildings[b].AssignedStaff
                        /\ Removed.Building.OperationalEfficiency
                              = Buildings[b].OperationalEfficiency
                  /\ StaffMember = NullActor =>
                        /\ ~Assigned.ret
                        /\ Assigned.Building = Buildings[b]

\* the removal of a non-member or of the null reference has failed on a
\* building that has a staff member
C26_Witness ==
    /\ lastCall.op = "RemoveStaffMember"
    /\ ~lastCall.ret
    /\ \E b \in LiveBuildings : Len(Buildings[b].AssignedStaff) = 1

\* the guests of B
GuestsOf(B) == { B.CurrentGuests[i] : i \in 1..Len(B.CurrentGuests) }

\* the capacity of B: MaxGuests of its asset, 1 without an asset
CapacityOf(B) == IF B.BuildingAsset = None THEN 1 ELSE AssetDef(B.BuildingAsset).MaxGuests

\* C27: guest registration is capacity-bounded: after any sequence of
\* RegisterGuest and RemoveGuest calls the number of guests never exceeds
\* MaxGuests (1 when no asset is bound) and no guest appears twice;
\* RegisterGuest of a new guest at full capacity returns false and leaves the
\* guests unchanged, RegisterGuest of a registered guest returns true;
\* HasAvailableCapacity is true iff the guest count is below MaxGuests.
C27_GuestCapacity ==
    \A b \in LiveBuildings :
        /\ Len(Buildings[b].CurrentGuests) <= CapacityOf(Buildings[b])
        /\ Cardinality(GuestsOf(Buildings[b])) = Len(Buildings[b].CurrentGuests)
        /\ HasAvailableCapacity(Buildings[b])
              <=> Len(Buildings[b].CurrentGuests) < CapacityOf(Buildings[b])
        /\ \A Guest \in GuestArgs \ {NullActor} :
              LET Registered == RegisterGuest(Buildings[b], Guest) IN
              /\ Guest \in GuestsOf(Buildings[b]) => Registered.ret
              /\ (/\ Guest \notin GuestsOf(Buildings[b])
                  /\ Len(Buildings[b].CurrentGuests) >= CapacityOf(Buildings[b]))
                    => (~Registered.ret /\ Registered.Building = Buildings[b])
              /\ Len(Registered.Building.CurrentGuests) <= CapacityOf(Buildings[b])

\* a new guest has been turned away by a room that holds its one guest
C27_Witness ==
    /\ lastCall.op = "RegisterGuest"
    /\ ~lastCall.ret
    /\ lastCall.Guest # NullActor
    /\ \E b \in LiveBuildings :
          /\ Buildings[b].BuildingAsset = "Room"
          /\ Len(Buildings[b].CurrentGuests) = 1
          /\ lastCall.Guest \notin GuestsOf(Buildings[b])

\* C28: IsOperational is true exactly when the state is Operational(1) and the
\* total number of assigned staff is at least the required count of every
\* required-staff entry of the bound asset (the staff type is not
\* distinguished); a building in Construction is never operational, however
\* many staff it has.
C28_IsOperational ==
    /\ \A b \in LiveBuildings :
          /\ IsOperational(Buildings[b])
                <=> (/\ Buildings[b].BuildingState = 1
                     /\ \A r \in RequiredCounts(Buildings[b]) : StaffCount(Buildings[b]) >= r)
          /\ Buildings[b].BuildingState = 0 => ~IsOperational(Buildings[b])
    /\ (lastCall.op = "IsOperational" /\ lastCall.ret)
          => \E b \in LiveBuildings : Buildings[b].BuildingState = 1

\* a suite, which needs two therapists and a cleaner, has been found
\* operational with two staff members
C28_Witness ==
    /\ lastCall.op = "IsOperational"
    /\ lastCall.ret
    /\ \E b \in LiveBuildings :
          /\ Buildings[b].BuildingAsset = "Suite"
          /\ Len(Buildings[b].AssignedStaff) = 2
          /\ Buildings[b].BuildingState = 1

\* a room in Construction with its two cleaners has been found not operational
C28_WitnessConstruction ==
    /\ lastCall.op = "IsOperational"
    /\ ~lastCall.ret
    /\ \E b \in LiveBuildings :
          /\ Buildings[b].BuildingAsset = "Room"
          /\ Len(Buildings[b].AssignedStaff) = 2
          /\ Buildings[b].BuildingState = 0

\* C29: after any sequence of controller events the rotation state is in 0..3
\* and the floor-index state is in 0..MaxFloors-1; a rotate event advances the
\* rotation by one modulo 4 while building mode is active and leaves it alone
\* otherwise; entering building mode (with an asset) resets the rotation to 0.
ControllerStateBounded ==
    /\ CurrentRotation \in 0..3
    /\ CurrentFloorLevel \in 0..(MaxFloors - 1)
NextQuarter(Rotation) ==
    CASE Rotation = 0 -> 1 [] Rotation = 1 -> 2 [] Rotation = 2 -> 3 [] Rotation = 3 -> 0
RotateStep ==
    lastCall'.op = "RotateBuilding"
    => /\ bBuildingModeActive => CurrentRotation' = NextQuarter(CurrentRotation)
       /\ ~bBuildingModeActive => CurrentRotation' = CurrentRotation
EnterStep ==
    \A Asset \in EnterAssetArgs \ {None} :
        (lastCall'.op = "EnterBuildingMode" /\ EnterBuildingMode(Asset))
        => bBuildingModeActive' /\ SelectedBuildingAsset' = Asset /\ CurrentRotation' = 0
C29_ControllerBounds ==
    []ControllerStateBounded /\ [][RotateStep /\ EnterStep]_vars

\* a rotate event in building mode has wrapped the rotation from 3 to 0 on the
\* upper floor of a grid of two floors
C29_Witness ==
    /\ lastCall.op = "RotateBuilding"
    /\ bBuildingModeActive
    /\ CurrentRotation = 0
    /\ MaxFloors = 2
    /\ CurrentFloorLevel = 1
    /\ LiveBuildings # {}

\* what a confirm event may do: nothing outside building mode or without a
\* cursor hit; one more building and building mode left after a successful
\* placement; buildings, occupancy, mode, asset and rotation kept after a
\* rejected one
OccupancyUnchanged ==
    \A c \in AllCells : Occupancy(CellAt(c[2], c[1]))' = Occupancy(CellAt(c[2], c[1]))
ConfirmStep ==
    lastCall'.op = "ConfirmPlacement" =>
        LET bAttempted == bBuildingModeActive /\ lastCall'.Hit.bBlockingHit
            PlacedBuilding == lastCall'.ret
        IN  /\ DOMAIN Buildings \subseteq DOMAIN Buildings'
            /\ Cardinality(DOMAIN Buildings') <= Cardinality(DOMAIN Buildings) + 1
            /\ ~bAttempted =>
                  /\ PlacedBuilding = NullActor
                  /\ UNCHANGED <<GridSizeX, GridSizeY, CellSize, MaxFloors, GridData,
                                 ActiveFloorLevel, bGridVisualizationEnabled, Buildings,
                                 SelectedBuildingAsset, bBuildingModeActive,
                                 CurrentRotation, CurrentFloorLevel>>
            /\ (bAttempted /\ PlacedBuilding # NullActor) =>
                  /\ PlacedBuilding \notin DOMAIN Buildings
                  /\ DOMAIN Buildings' = DOMAIN Buildings \cup {PlacedBuilding}
                  /\ \A b \in DOMAIN Buildings : Buildings'[b] = Buildings[b]
                  /\ ~bBuildingModeActive'
                  /\ SelectedBuildingAsset' = None
            /\ (bAttempted /\ PlacedBuilding = NullActor) =>
                  /\ Buildings' = Buildings
                  /\ OccupancyUnchanged
                  /\ bBuildingModeActive'
                  /\ SelectedBuildingAsset' = SelectedBuildingAsset
                  /\ CurrentRotation' = CurrentRotation

\* C30: a confirm event adds at most one building: outside building mode or
\* without a cursor hit it changes nothing; in building mode a successful
\* placement adds exactly one building and leaves building mode (mode
\* inactive, selected asset cleared); a rejected placement adds no building,
\* leaves occupancy unchanged and keeps building mode active with the same
\* selected asset and rotation.
C30_ConfirmAddsAtMostOne == [][ConfirmStep]_vars

\* a confirm event has been rejected on a rotated suite next to a building
\* placed by an earlier confirm event: building mode is still active
C30_Witness ==
    /\ lastCall.op = "ConfirmPlacement"
    /\ lastCall.Hit.bBlockingHit
    /\ lastCall.ret = NullActor
    /\ bBuildingModeActive
    /\ SelectedBuildingAsset = "Suite"
    /\ CurrentRotation = 2
    /\ LiveBuildings # {}

\* a confirm event has placed a second building and left building mode
C30_WitnessPlaced ==
    /\ lastCall.op = "ConfirmPlacement"
    /\ lastCall.ret # NullActor
    /\ lastCall.ret \in LiveBuildings
    /\ Cardinality(LiveBuildings) = 2
    /\ ~bBuildingModeActive
    /\ SelectedBuildingAsset = None

\* what a cancel event does: occupancy and buildings stay, building mode is
\* left, no asset is selected, every cell is Normal
CancelStep ==
    lastCall'.op = "CancelPlacement" =>
        /\ OccupancyUnchanged
        /\ Buildings' = Buildings
        /\ ~bBuildingModeActive'
        /\ SelectedBuildingAsset' = None
        /\ \A c \in AllCells : CellAt(c[2], c[1]).VisualState' = "Normal"

\* C31: a cancel event in any controller state leaves every cell's occupancy
\* data and every placed building unchanged, and afterwards building mode is
\* inactive, no asset is selected and every cell on every floor has visual
\* state Normal.
C31_CancelResets == [][CancelStep]_vars

\* a cancel event has ended a building mode in which the placement was
\* rotated, on a grid that holds a building
C31_Witness ==
    /\ lastCall.op = "CancelPlacement"
    /\ LiveBuildings # {}
    /\ CurrentRotation = 1
    /\ ~bBuildingModeActive
    /\ \E c \in AllCells : CellAt(c[2], c[1]).bIsOccupied

\* the cells that refer to the building Building, and the cells of its
\* footprint at its origin, rotation and floor
CellsReferringTo(Building) ==
    { c \in AllCells : CellAt(c[2], c[1]).OccupyingObject = Building }
FootprintCellsOf(B) ==
    { <<B.FloorLevel, p>> :
        p \in Range(GetOccupiedCellPositions(GetFootprint(B), B.GridOrigin, B.GridRotation)) }

\* C32: after any sequence of PlaceBuilding and RemoveBuilding calls on an
\* initialized grid, the cells whose occupying object is a live building are
\* exactly the cells of that building's footprint at its origin and rotation
\* on its floor, and no cell refers to a building that has been removed.
C32_FootprintBookkeeping ==
    /\ \A b \in LiveBuildings : CellsReferringTo(b) = FootprintCellsOf(Buildings[b])
    /\ \A c \in AllCells :
          CellAt(c[2], c[1]).OccupyingObject \in LiveBuildings \cup {NullActor}

\* a building has been removed while a rotated suite, the actor with the
\* higher id, is still there on its two cells
C32_Witness ==
    /\ lastCall.op = "RemoveBuilding"
    /\ lastCall.ret
    /\ \E b \in LiveBuildings :
          /\ Buildings[b].GridRotation = 1
          /\ Cardinality(CellsReferringTo(b)) = 2
          /\ b = 2

\* C33: structural support is an invariant of every reachable state: after any
\* sequence of PlaceBuilding and RemoveBuilding calls, every occupied cell on a
\* floor N > 0 has an occupied cell at the same (x, y) on floor N - 1.
C33_StructuralSupport ==
    \A f \in Floors : \A p \in Positions :
        (f > 0 /\ CellAt(p, f).bIsOccupied) => CellAt(p, f - 1).bIsOccupied

\* C34: adjacency requirements keep holding after placement: in every state
\* reachable by PlaceBuilding and RemoveBuilding, every requirement of every
\* placed building's asset, positive or negative, is met at the building's
\* origin on its floor.
C34_AdjacencyKeepsHolding ==
    \A b \in LiveBuildings :
        LET B == Buildings[b]
            Requirements == AssetDef(B.BuildingAsset).AdjacencyRequirements
        IN  \A i \in 1..Len(Requirements) :
                RequirementMet(Requirements[i], B.GridOrigin, B.FloorLevel)

\* after a successful PlaceBuilding, RemoveBuilding on each cell of the new
\* building succeeds and leaves the occupancy data of every cell, and the
\* buildings, as they were before the placement
OccupancyOf(Grid) ==
    [f \in DOMAIN Grid |-> [y \in DOMAIN Grid[f] |-> [x \in DOMAIN Grid[f][y] |->
        Occupancy(Grid[f][y][x])]]]
RestoresOccupancy(Result) ==
    /\ Result.ret = TRUE
    /\ Result.Buildings = Buildings
    /\ OccupancyOf(Result.GridData) = OccupancyOf(GridData)
PlaceRemoveStep ==
    (lastCall'.op = "PlaceBuilding" /\ lastCall'.ret # NullActor) =>
        \A c \in AllCells :
            CellAt(c[2], c[1])'.OccupyingObject = lastCall'.ret =>
                RestoresOccupancy(RemoveBuilding(c[2], c[1])')

\* C35: from any reachable grid state, a successful PlaceBuilding immediately
\* followed by RemoveBuilding on any cell of the new building restores the
\* occupied flag, occupying object and object origin of every cell on every
\* floor to their values before the placement.
C35_PlaceRemoveRoundTrip == [][PlaceRemoveStep]_vars

\* a rotated suite has just been placed on the upper floor, on top of another
\* building
C35_Witness ==
    /\ lastCall.op = "PlaceBuilding"
    /\ lastCall.ret # NullActor
    /\ Buildings[lastCall.ret].BuildingAsset = "Suite"
    /\ Buildings[lastCall.ret].GridRotation = 1
    /\ Buildings[lastCall.ret].FloorLevel = 1
    /\ Cardinality(CellsReferringTo(lastCall.ret)) = 2
    /\ Cardinality(LiveBuildings) = 2

\* the offsets (x, y) with 0 <= x < w and 0 <= y < h of a w x h rectangle
RectangleOffsets(Size) ==
    { [X |-> x, Y |-> y] : x \in 0..(Size.X - 1), y \in 0..(Size.Y - 1) }

\* C36: a rectangular footprint rotates like its cells: for every size (w, h)
\* with w, h >= 1, every origin and every rotation r in 0..3, the cells returned
\* for the rectangle are the cells returned for the offset list of its w * h
\* offsets (origin + R_r(offset)), so at an odd rotation the area spans h cells
\* in X and w cells in Y.
C36_RectangleRotatesLikeCells ==
    (/\ lastCall.op = "GetOccupiedCellPositions"
     /\ lastCall.RotationQuarters \in 0..3
     /\ lastCall.Footprint.OccupiedCells = << >>) =>
        LET F == lastCall.Footprint
            r == lastCall.RotationQuarters
            Cells == Range(lastCall.ret)
        IN  /\ Cells = { Translated(lastCall.Origin, QuarterTurn(r, o)) :
                            o \in RectangleOffsets(F.Size) }
            /\ r \in {1, 3} =>
                  /\ Cardinality({ c.X : c \in Cells }) = F.Size.Y
                  /\ Cardinality({ c.Y : c \in Cells }) = F.Size.X

\* the buildings that are bound to an asset
BoundBuildings == { b \in LiveBuildings : Buildings[b].BuildingAsset # None }

\* C37 as stated: in every reachable state of a building with a bound asset,
\* also right after InitializeFromAsset or PlaceBuilding, the stored efficiency
\* is 100 x the minimum over the required-staff entries of
\* min(1, assigned / required).
C37_EfficiencyAlwaysStaffRatio ==
    \A b \in BoundBuildings : EfficiencyIsStaffRatio(Buildings[b])

\* the efficiency InitializeFromAsset stored has not been recomputed yet: it
\* is 100, no staff is assigned and the building is under construction
EfficiencyAsInitialized(B) ==
    /\ B.OperationalEfficiency = 100
    /\ B.AssignedStaff = << >>
    /\ B.BuildingState = 0

\* C37: in every reachable state of a building with a bound asset the stored
\* efficiency is 100 x the minimum over the required-staff entries of
\* min(1, assigned / required), except between InitializeFromAsset (or
\* PlaceBuilding) and the first successful staff change or daily update: there
\* it is 100 whatever the asset requires, with no staff and in Construction.
C37_EfficiencyStaffRatioOnceRecomputed ==
    \A b \in BoundBuildings :
        EfficiencyIsStaffRatio(Buildings[b]) \/ EfficiencyAsInitialized(Buildings[b])

\* a guest has been registered in a room that needs two cleaners, has none and
\* still has the efficiency 100 it was initialized with
C37_Witness ==
    /\ lastCall.op = "RegisterGuest"
    /\ lastCall.ret
    /\ \E b \in BoundBuildings :
          /\ Buildings[b].BuildingAsset = "Room"
          /\ Len(Buildings[b].CurrentGuests) = 1
          /\ Buildings[b].AssignedStaff = << >>
          /\ Buildings[b].OperationalEfficiency = 100
          /\ ~EfficiencyIsStaffRatio(Buildings[b])

\* C38: whenever IsOperational is true for a building (its state is
\* Operational and the number of its staff members reaches every required
\* count, all of them positive), its stored efficiency is 100, after any
\* sequence of InitializeFromAsset, staff and guest operations and
\* OnDailyUpdate.
C38_OperationalIsFullyEfficient ==
    \A b \in LiveBuildings :
        LET B == Buildings[b] IN
        (/\ IsOperational(B)
         /\ \A r \in RequiredCounts(B) : r > 0)
        => /\ B.OperationalEfficiency = 100
           /\ B.BuildingState = 1
           /\ \A r \in RequiredCounts(B) : StaffCount(B) >= r

\* IsOperational has returned true for a suite with two staff members and a
\* registered guest
C38_Witness ==
    /\ lastCall.op = "IsOperational"
    /\ lastCall.ret
    /\ \E b \in LiveBuildings :
          /\ Buildings[b].BuildingAsset = "Suite"
          /\ Len(Buildings[b].AssignedStaff) = 2
          /\ Len(Buildings[b].CurrentGuests) = 1
          /\ Buildings[b].OperationalEfficiency = 100

\* the cells that carry a preview mark
PreviewMarks == { c \in AllCells : CellAt(c[2], c[1]).VisualState # "Normal" }

\* C39: when the grid is driven only through the controller, in every state
\* where building mode is inactive every cell on every floor has visual state
\* Normal: preview marks exist only while building mode is active.
C39_MarksOnlyInBuildingMode ==
    ~bBuildingModeActive => PreviewMarks = {}

\* building mode has been left on the upper floor of a grid that holds a
\* building, and no cell carries a mark
C39_Witness ==
    /\ lastCall.op \in {"ExitBuildingMode", "CancelPlacement"}
    /\ ~bBuildingModeActive
    /\ CurrentRotation = 1
    /\ CurrentFloorLevel = 1
    /\ LiveBuildings # {}
    /\ PreviewMarks = {}

\* a tick has marked the cells of a rotated suite while building mode is active
C39_WitnessMarked ==
    /\ lastCall.op = "Tick"
    /\ bBuildingModeActive
    /\ CurrentRotation = 1
    /\ Cardinality(PreviewMarks) = 2

\* a floor-down event on floor 0 and a floor-up event on the top floor leave
\* the floor of the controller and the active floor of the manager as they
\* are; the other floor events move both by one
FloorStep ==
    /\ lastCall'.op = "DecrementFloorLevel" =>
          /\ CurrentFloorLevel = 0 => UNCHANGED <<CurrentFloorLevel, ActiveFloorLevel>>
          /\ CurrentFloorLevel > 0 => CurrentFloorLevel' = CurrentFloorLevel - 1
    /\ lastCall'.op = "IncrementFloorLevel" =>
          /\ CurrentFloorLevel = MaxFloors - 1
                => UNCHANGED <<CurrentFloorLevel, ActiveFloorLevel>>
          /\ CurrentFloorLevel < MaxFloors - 1 => CurrentFloorLevel' = CurrentFloorLevel + 1

\* C40: when the active floor is changed only through the controller's floor
\* events, the manager's active floor equals the controller's floor index in
\* every reachable state; a floor-down event at floor 0 and a floor-up event
\* at floor MaxFloors - 1 leave both unchanged.
C40_ActiveFloorFollowsController ==
    [](ActiveFloorLevel = CurrentFloorLevel) /\ [][FloorStep]_vars

\* a floor-down event has brought the controller and the manager back to the
\* ground floor while a suite is being placed on a grid that holds a building
C40_Witness ==
    /\ lastCall.op = "DecrementFloorLevel"
    /\ MaxFloors = 2
    /\ CurrentFloorLevel = 0
    /\ ActiveFloorLevel = 0
    /\ bBuildingModeActive
    /\ \E b \in LiveBuildings : Buildings[b].FloorLevel = 1


====
